---- MODULE Spec2Model ----
(***************************************************************************)
(* A model of the retrieval pipeline of the HackatonBackend repository:    *)
(* the similarity cache (services/cacheService.ts), the hybrid reranker    *)
(* (utils/reranker.ts), the request pipeline (services/chatService.ts)     *)
(* and the streaming provider client (config/deepseek.ts).                 *)
(*                                                                         *)
(* Numbers are exact: a score is an integer number of hundredths, a cosine *)
(* similarity is the pair (dot, normA*normB) standing for                  *)
(* dot / sqrt(normA*normB), and comparisons are made on the squares.       *)
(***************************************************************************)
EXTENDS Integers, Sequences, FiniteSets, TLC

(***************************************************************************)
(* Bounds of the model.                                                    *)
(***************************************************************************)
MaxCache == 2          \* entries the cache may hold (the code has no limit)
MaxLookups == 2        \* checkCache calls counted by stats between clears
MaxDocs == 6           \* length of a reranker input list

VARIABLES
  embeddingIndex,      \* cacheService.ts: const embeddingIndex
  queryCache,          \* cacheService.ts: const queryCache (Map id -> CachedQuery)
  stats,               \* cacheService.ts: const stats
  lastCall,            \* the last call made on the cache API and its result
  rrInput,             \* the arguments of a rerankDocuments call
  rrOutput,            \* its result, once it has returned
  req,                 \* per request: the locals of chatWithDocuments(Stream)
  queryLogs,           \* queryLogger: const queryLogs (newest first)
  clears,              \* how many times clearCache ran (history)
  warm                 \* cacheService.ts: the locals of a warmCache call

cacheVars == <<embeddingIndex, queryCache, stats>>
rerankVars == <<rrInput, rrOutput>>
pipeVars == <<req, queryLogs, clears, warm>>
vars ==
  <<embeddingIndex, queryCache, stats, lastCall, rrInput, rrOutput, req,
    queryLogs, clears, warm>>

Null == [null |-> TRUE]

(***************************************************************************)
(* cosineSimilarity (cacheService.ts 41-56)                                *)
(***************************************************************************)
RECURSIVE DotFrom(_, _, _)
DotFrom(a, b, i) ==
  IF i > Len(a) THEN 0 ELSE a[i] * b[i] + DotFrom(a, b, i + 1)

ZeroSim == [dot |-> 0, normSq |-> 1]

\* the similarity without the guard on the lengths (a slip the code avoids)
cosineSimilarityNoLengthCheck(a, b) ==
  LET n == IF Len(a) < Len(b) THEN Len(a) ELSE Len(b)
      x == SubSeq(a, 1, n)
      y == SubSeq(b, 1, n)
      normA == DotFrom(x, x, 1)
      normB == DotFrom(y, y, 1)
  IN IF normA * normB = 0 THEN ZeroSim
     ELSE [dot |-> DotFrom(x, y, 1), normSq |-> normA * normB]

cosineSimilarity(a, b) ==
  IF Len(a) # Len(b) THEN ZeroSim
  ELSE LET dotProduct == DotFrom(a, b, 1)
           normA == DotFrom(a, a, 1)
           normB == DotFrom(b, b, 1)
       IN \* denominator = sqrt(normA) * sqrt(normB) is 0 iff normA*normB is
          IF normA * normB = 0 THEN ZeroSim
          ELSE [dot |-> dotProduct, normSq |-> normA * normB]

\* SIMILARITY_THRESHOLD = 0.95 = 19/20
SimThresholdNum == 19
SimThresholdDen == 20

\* similarity >= SIMILARITY_THRESHOLD
SimAtLeastThreshold(s) ==
  /\ s.dot >= 0
  /\ SimThresholdDen * SimThresholdDen * s.dot * s.dot
       >= SimThresholdNum * SimThresholdNum * s.normSq

\* s > t, as numbers
SimGreater(s, t) ==
  IF s.dot >= 0 /\ t.dot >= 0
  THEN s.dot * s.dot * t.normSq > t.dot * t.dot * s.normSq
  ELSE IF s.dot >= 0 THEN TRUE
  ELSE IF t.dot >= 0 THEN FALSE
  ELSE s.dot * s.dot * t.normSq < t.dot * t.dot * s.normSq

(***************************************************************************)
(* The cache as a value: the three module-level objects of cacheService.ts *)
(***************************************************************************)
CacheState ==
  [embeddingIndex |-> embeddingIndex, queryCache |-> queryCache, stats |-> stats]

SetCache(c) ==
  /\ embeddingIndex' = c.embeddingIndex
  /\ queryCache' = c.queryCache
  /\ stats' = c.stats

EmptyCache ==
  [embeddingIndex |-> <<>>,
   queryCache |-> <<>>,
   stats |-> [totalQuestions |-> 0, cachedQuestions |-> 0, hitCount |-> 0,
              missCount |-> 0, lastWarmTime |-> "null"]]

NoMatch == [id |-> 0, similarity |-> ZeroSim]

\* the loop of checkCache (cacheService.ts 63-72): bestMatch after entries i..
RECURSIVE BestMatchFrom(_, _, _, _)
BestMatchFrom(index, queryEmbedding, i, bestMatch) ==
  IF i > Len(index) THEN bestMatch
  ELSE LET similarity == cosineSimilarity(queryEmbedding, index[i].embedding)
           next == IF /\ SimAtLeastThreshold(similarity)
                      /\ \/ bestMatch = NoMatch
                         \/ SimGreater(similarity, bestMatch.similarity)
                   THEN [id |-> index[i].id, similarity |-> similarity]
                   ELSE bestMatch
       IN BestMatchFrom(index, queryEmbedding, i + 1, next)

\* a scan that keeps the first entry over the threshold instead of the best
FirstMatch(index, queryEmbedding) ==
  IF \E i \in 1..Len(index) :
       SimAtLeastThreshold(cosineSimilarity(queryEmbedding, index[i].embedding))
  THEN LET i == CHOOSE k \in 1..Len(index) :
                  /\ SimAtLeastThreshold(
                       cosineSimilarity(queryEmbedding, index[k].embedding))
                  /\ \A j \in 1..(k - 1) :
                       ~SimAtLeastThreshold(
                          cosineSimilarity(queryEmbedding, index[j].embedding))
       IN [id |-> index[i].id,
           similarity |-> cosineSimilarity(queryEmbedding, index[i].embedding)]
  ELSE NoMatch

\* a scan that replaces bestMatch on an equal similarity too
RECURSIVE LatestMatchFrom(_, _, _, _)
LatestMatchFrom(index, queryEmbedding, i, bestMatch) ==
  IF i > Len(index) THEN bestMatch
  ELSE LET similarity == cosineSimilarity(queryEmbedding, index[i].embedding)
           next == IF /\ SimAtLeastThreshold(similarity)
                      /\ ~SimGreater(bestMatch.similarity, similarity)
                   THEN [id |-> index[i].id, similarity |-> similarity]
                   ELSE bestMatch
       IN LatestMatchFrom(index, queryEmbedding, i + 1, next)

LatestMatch(index, queryEmbedding) ==
  LatestMatchFrom(index, queryEmbedding, 1, NoMatch)

BestMatch(index, queryEmbedding) ==
  BestMatchFrom(index, queryEmbedding, 1, NoMatch)

\* checkCache (cacheService.ts 62-85): the value returned
checkCacheResult(c, queryEmbedding) ==
  LET bestMatch == BestMatch(c.embeddingIndex, queryEmbedding)
  IN IF bestMatch # NoMatch /\ bestMatch.id \in DOMAIN c.queryCache
     THEN c.queryCache[bestMatch.id]
     ELSE Null

\* checkCache: the cache after the call (hitCount / missCount)
checkCacheState(c, queryEmbedding) ==
  IF checkCacheResult(c, queryEmbedding) # Null
  THEN [c EXCEPT !.stats.hitCount = @ + 1]
  ELSE [c EXCEPT !.stats.missCount = @ + 1]

\* the id of addToCache: `q_${Date.now()}_${random}`, a value no entry of the
\* cache has; between two clears the index only grows, so its length + 1 is
NewId(c) == Len(c.embeddingIndex) + 1

\* an insertion that replaces an entry of the same embedding
addToCacheReplacing(c, question, embedding, results) ==
  LET same == {i \in 1..Len(c.embeddingIndex) :
                 c.embeddingIndex[i].embedding = embedding}
      entry == [question |-> question, embedding |-> embedding,
                retrievalResults |-> results]
  IN IF same = {}
     THEN [c EXCEPT
            !.queryCache = (NewId(c) :> entry) @@ c.queryCache,
            !.embeddingIndex = Append(c.embeddingIndex,
                                      [id |-> NewId(c), embedding |-> embedding]),
            !.stats.cachedQuestions = @ + 1]
     ELSE LET i == CHOOSE k \in same : TRUE
          IN [c EXCEPT !.queryCache =
                 (c.embeddingIndex[i].id :> entry) @@ c.queryCache]

\* an insertion that stores the entry without its ranked documents
addToCacheEmptyResults(c, question, embedding, results) ==
  LET id == NewId(c)
  IN [c EXCEPT
       !.queryCache = (id :> [question |-> question, embedding |-> embedding,
                              retrievalResults |-> <<>>]) @@ c.queryCache,
       !.embeddingIndex = Append(c.embeddingIndex,
                                 [id |-> id, embedding |-> embedding]),
       !.stats.cachedQuestions = @ + 1]

\* an insertion that pushes onto the index and forgets the map
addToCacheIndexOnly(c, question, embedding, results) ==
  [c EXCEPT
     !.embeddingIndex = Append(c.embeddingIndex,
                               [id |-> NewId(c), embedding |-> embedding]),
     !.stats.cachedQuestions = @ + 1]

\* addToCache (cacheService.ts 90-104); the timestamp of the entry is read
\* by nothing and is left out
addToCache(c, question, embedding, results) ==
  LET id == NewId(c)
  IN [c EXCEPT
       !.queryCache = (id :> [question |-> question, embedding |-> embedding,
                              retrievalResults |-> results]) @@ c.queryCache,
       !.embeddingIndex = Append(c.embeddingIndex,
                                 [id |-> id, embedding |-> embedding]),
       !.stats.cachedQuestions = @ + 1]

\* a clearCache that empties the map and the counters and keeps the index
clearCacheKeepIndex(c) ==
  [c EXCEPT !.queryCache = <<>>,
            !.stats.cachedQuestions = 0,
            !.stats.hitCount = 0,
            !.stats.missCount = 0]

\* clearCache (cacheService.ts 195-202)
clearCache(c) ==
  [c EXCEPT !.queryCache = <<>>,
            !.embeddingIndex = <<>>,
            !.stats.cachedQuestions = 0,
            !.stats.hitCount = 0,
            !.stats.missCount = 0]

(***************************************************************************)
(* rerankDocuments (utils/reranker.ts 41-135)                              *)
(*                                                                         *)
(* A RetrievedDocument is [id, score, fileName, lineNumber, text]: score   *)
(* is the vector similarity in tenths; text stands for metadata.text by    *)
(* what the code reads of it: kwScore, the value of calculateKeywordScore  *)
(* (query, text) in tenths, words, the intent keywords it contains, and    *)
(* chars, its length.  finalScore is in hundredths.                        *)
(***************************************************************************)
\* DEFAULT_CONFIG.semanticWeight 0.6 and keywordWeight 0.4, in tenths
SemanticWeight == 6
KeywordWeight == 4

\* calculateHybridScore (keywordSearch.ts): tenths * tenths = hundredths
calculateHybridScore(semanticScore, keywordScore, semanticWeight, keywordWeight) ==
  (semanticScore * semanticWeight) + (keywordScore * keywordWeight)

\* step 1 of rerankDocuments: documents.map(...)
ScoreDocument(doc, index) ==
  [id |-> doc.id, score |-> doc.score, fileName |-> doc.fileName,
   lineNumber |-> doc.lineNumber, text |-> doc.text,
   originalRank |-> index,
   finalScore |-> calculateHybridScore(doc.score, doc.text.kwScore,
                                       SemanticWeight, KeywordWeight)]

\* step 2: Array.prototype.sort with (a, b) => b.finalScore - a.finalScore,
\* a stable sort: d goes after every document that does not score below it
RECURSIVE InsertByScore(_, _)
InsertByScore(sorted, d) ==
  IF sorted = <<>> THEN <<d>>
  ELSE IF Head(sorted).finalScore >= d.finalScore
       THEN <<Head(sorted)>> \o InsertByScore(Tail(sorted), d)
       ELSE <<d>> \o sorted

\* no sort: the documents stay in the order of the input
SortNone(docs) == docs

RECURSIVE SortByFinalScore(_)
SortByFinalScore(docs) ==
  IF docs = <<>> THEN <<>>
  ELSE InsertByScore(SortByFinalScore(SubSeq(docs, 1, Len(docs) - 1)),
                     docs[Len(docs)])

\* a deduplication that keeps the last document of each file, not the first
DedupeKeepLast(docs, i, seenFiles) ==
  LET tagged == [k \in 1..Len(docs) |->
                   [doc |-> docs[k],
                    last |-> \A j \in (k + 1)..Len(docs) :
                               docs[j].fileName # docs[k].fileName]]
      kept == SelectSeq(tagged, LAMBDA t : t.last)
  IN [k \in 1..Len(kept) |-> kept[k].doc]

\* step 3: keep the first document of each metadata.fileName
RECURSIVE DedupeFrom(_, _, _)
DedupeFrom(docs, i, seenFiles) ==
  IF i > Len(docs) THEN <<>>
  ELSE IF docs[i].fileName \in seenFiles
       THEN DedupeFrom(docs, i + 1, seenFiles)
       ELSE <<docs[i]>> \o DedupeFrom(docs, i + 1, seenFiles \cup {docs[i].fileName})

\* step 4: BASE_THRESHOLD = 0.27 (hundredths) and the factor 0.9 = 9/10
BaseThreshold == 27
ThresholdNum == 9
ThresholdDen == 10

\* doc.finalScore > dynamicThreshold: a document at the cutoff is dropped
PassesThresholdStrict(doc, topScore) ==
  IF topScore > BaseThreshold
  THEN ThresholdDen * doc.finalScore > ThresholdNum * topScore
  ELSE doc.finalScore > BaseThreshold

\* doc.finalScore >= dynamicThreshold
PassesThreshold(doc, topScore) ==
  IF topScore > BaseThreshold
  THEN ThresholdDen * doc.finalScore >= ThresholdNum * topScore
  ELSE doc.finalScore >= BaseThreshold

\* an intent string is modelled by the fragments the code looks for in it
IntentFragments(intent) ==
  CASE intent = "pricing for gaming pack" -> {"pric", "gam"}
    [] intent = "how to pay a bill" -> {"bill", "pay", "how"}
    [] intent = "looking for current offers" -> {}
    [] OTHER -> {}

\* getIntentKeywords (reranker.ts 137-155); an accent is written after its
\* letter (e' for e acute, u^ for u circumflex)
getIntentKeywords(intent) ==
  LET has(f) == f \in IntentFragments(intent)
  IN IF has("pric") \/ has("tarif") \/ has("cou^t") \/ has("cost")
     THEN {"prix", "tarif", "da/mois", "dinar", "paiement", "facture"}
     ELSE IF has("gam") \/ has("jeu")
     THEN {"gaming", "jeu", "ping", "latence", "gamer"}
     ELSE IF has("bill") \/ has("factur") \/ has("pay")
     THEN {"facture", "paiement", "payer", "edahabia", "cib", "poste"}
     ELSE IF has("speed") \/ has("debit") \/ has("lenteur")
     THEN {"de'bit", "mbps", "vitesse", "lenteur", "test"}
     ELSE IF has("procedure") \/ has("comment") \/ has("how")
     THEN {"comment", "proce'dure", "e'tape", "guide", "de'marche"}
     ELSE {}

\* no intent: undefined or the empty string, both falsy
NoIntent == ""

\* step 5 without the test of line 110: the filter is applied even when no
\* document matches
IntentFilterAlways(filteredDocs, intent) ==
  IF intent # NoIntent /\ intent # "unknown"
  THEN LET intentKeywords == getIntentKeywords(intent)
           matches(doc) == doc.text.words \cap intentKeywords # {}
       IN IF intentKeywords # {}
          THEN SelectSeq(filteredDocs, matches)
          ELSE filteredDocs
  ELSE filteredDocs

\* step 5: the intent filter
IntentFilter(filteredDocs, intent) ==
  IF intent # NoIntent /\ intent # "unknown"
  THEN LET intentKeywords == getIntentKeywords(intent)
           matches(doc) == doc.text.words \cap intentKeywords # {}
           intentMatchingDocs == SelectSeq(filteredDocs, matches)
       IN IF intentKeywords # {} /\ Len(intentMatchingDocs) >= 1
          THEN intentMatchingDocs
          ELSE filteredDocs
  ELSE filteredDocs

\* MAX_SOURCES
MaxSources == 5

\* slice(0, n)
Slice(s, n) == SubSeq(s, 1, IF Len(s) < n THEN Len(s) ELSE n)

\* step 6 without its guard on rankedDocs: nothing is restored
MinimumResultsNever(filteredDocs, rankedDocs) == filteredDocs

\* step 6: at least 2 sources when there are 2
MinimumResults(filteredDocs, rankedDocs) ==
  IF Len(filteredDocs) < 2 /\ Len(rankedDocs) >= 2
  THEN Slice(rankedDocs, 2)
  ELSE filteredDocs

\* getInitialRetrievalCount() (reranker.ts 160-162, 33): no config is passed
getInitialRetrievalCount == 20

\* a reranker that returns config.finalResultCount documents at most
rerankDocumentsCapped(query, documents, intent, config) ==
  LET scored == [i \in 1..Len(documents) |-> ScoreDocument(documents[i], i)]
      rankedDocs == DedupeFrom(SortByFinalScore(scored), 1, {})
      topScore == IF Len(rankedDocs) > 0 THEN rankedDocs[1].finalScore ELSE 0
      passes(doc) == PassesThreshold(doc, topScore)
      filteredDocs == IntentFilter(SelectSeq(rankedDocs, passes), intent)
  IN Slice(MinimumResults(filteredDocs, rankedDocs), config.finalResultCount)

\* rerankDocuments; config.finalResultCount is accepted and never read
rerankDocuments(query, documents, intent, config) ==
  LET scored == [i \in 1..Len(documents) |-> ScoreDocument(documents[i], i)]
      rankedDocs == DedupeFrom(SortByFinalScore(scored), 1, {})
      topScore == IF Len(rankedDocs) > 0 THEN rankedDocs[1].finalScore ELSE 0
      passes(doc) == PassesThreshold(doc, topScore)
      filteredDocs == IntentFilter(SelectSeq(rankedDocs, passes), intent)
  IN Slice(MinimumResults(filteredDocs, rankedDocs), MaxSources)

(***************************************************************************)
(* The request pipeline (services/chatService.ts 1-372): data and helpers  *)
(***************************************************************************)
Requests == {1, 2}

\* a question is its whitespace-separated words and whether it ends in "?"
QInternet == [words |-> <<"internet">>, mark |-> FALSE]
QPrice ==
  [words |-> <<"price", "for", "100", "mbps", "fiber", "installation", "in",
               "algiers">>,
   mark |-> FALSE]
QRefined ==
  [words |-> <<"offres", "internet", "fibre", "algerie", "telecom">>,
   mark |-> FALSE]
Questions == {QInternet, QPrice}

\* the route passes topK || 3 (routes/chat.ts 21-25)
TopKs == {3}

\* isQueryLikelyAmbiguous (ghostPrompt.ts 108-125); "ou" is the word with a
\* grave accent; the last pattern (an article and one word) is a query of
\* two words, which the first test already accepts
isQueryLikelyAmbiguous(query) ==
  \/ Len(query.words) <= 2
  \/ query.words[1] \in {"what", "how", "where", "when", "why", "qui", "quoi",
                         "comment", "ou", "quand", "pourquoi"}
  \/ /\ query.words[1] \in {"tell", "show", "give"}
     /\ query.words[2] = "me"
  \/ query.words[1] = "dis" /\ query.words[2] = "moi"
  \/ query.words[1] = "montre"
  \/ query.mark

\* the fallback of refineQueryWithGhostPrompt (ghostPrompt.ts 70-76, 95-101)
FallbackRefined(query) ==
  [originalQuery |-> query, refinedQuery |-> query, intent |-> "unknown",
   entities |-> <<>>, isAmbiguous |-> FALSE]

\* a JSON value that is an array, and one that is not (or is missing)
ArrayOf(items) == [isArray |-> TRUE, items |-> items]
NotAnArray == [isArray |-> FALSE, items |-> <<>>]

\* Boolean(v) for the JSON values true, false, a non-empty string and a
\* missing field
ToBoolean(v) == v \in {"true", "yes"}

\* what a call of refineQueryWithGhostPrompt would leave if it raised
Raised == [raised |-> TRUE]

\* a refiner without its try / catch: a throw of the LLM call or of
\* JSON.parse leaves the function
refineQueryNoCatch(query, response) ==
  IF response.kind \in {"throws", "unparsable"} THEN Raised
  ELSE IF response.kind = "no braces" THEN FallbackRefined(query)
  ELSE [originalQuery |-> query,
        refinedQuery |-> IF response.parsed.refinedQuery = Null THEN query
                         ELSE response.parsed.refinedQuery,
        intent |-> IF response.parsed.intent = "" THEN "unknown"
                   ELSE response.parsed.intent,
        entities |-> IF response.parsed.entities.isArray
                     THEN response.parsed.entities.items ELSE <<>>,
        isAmbiguous |-> ToBoolean(response.parsed.isAmbiguous)]

\* refineQueryWithGhostPrompt (ghostPrompt.ts 48-103) on the outcome of its
\* LLM call: the call throws, the text has no {...}, JSON.parse throws, or
\* an object is parsed (a missing field is Null / "")
refineQueryWithGhostPrompt(query, response) ==
  IF response.kind # "object" THEN FallbackRefined(query)
  ELSE [originalQuery |-> query,
        refinedQuery |-> IF response.parsed.refinedQuery = Null THEN query
                         ELSE response.parsed.refinedQuery,
        intent |-> IF response.parsed.intent = "" THEN "unknown"
                   ELSE response.parsed.intent,
        entities |-> IF response.parsed.entities.isArray
                     THEN response.parsed.entities.items ELSE <<>>,
        isAmbiguous |-> ToBoolean(response.parsed.isAmbiguous)]

\* the responses that make the refiner fall back
FailedResponses ==
  {[kind |-> "throws"], [kind |-> "no braces"], [kind |-> "unparsable"]}

RefineResponses ==
  FailedResponses \cup
  {[kind |-> "object",
    parsed |-> [refinedQuery |-> QRefined, intent |-> "pricing for gaming pack",
                entities |-> ArrayOf(<<"offers">>), isAmbiguous |-> "true"]],
   [kind |-> "object",
    parsed |-> [refinedQuery |-> Null, intent |-> "", entities |-> NotAnArray,
                isAmbiguous |-> "missing"]]}

\* the objects a direct call of the refiner is given
ParsedObjects ==
  [refinedQuery : {Null, QRefined},
   intent : {"", "pricing for gaming pack"},
   entities : {ArrayOf(<<"offers">>), NotAnArray},
   isAmbiguous : {"true", "false", "yes", "missing"}]

DirectResponses ==
  FailedResponses \cup {[kind |-> "object", parsed |-> o] : o \in ParsedObjects}

\* an outcome of pinecone.inference.embed: the values, or a thrown error
Embedded(values) == [kind |-> "ok", values |-> values, message |-> ""]
EmbedError(message) == [kind |-> "error", values |-> <<>>, message |-> message]

\* an error message is modelled by the fragments the code looks for in it
\* (String.prototype.includes is case-sensitive)
MessageFragments(message) ==
  CASE message = "Model Qwen3-Embedding-0.6B not found (404)" -> {"404"}
    [] message = "PineconeNotFoundError: model" ->
         {"NotFound", "PineconeNotFoundError"}
    [] message = "timeout after 4040 ms" -> {"404"}
    [] message = "429 Too Many Requests" -> {}
    [] message = "model not found" -> {}
    [] OTHER -> {}

\* the test of embeddings.ts 22 on errStr
IsNotFound(message) ==
  \/ "404" \in MessageFragments(message)
  \/ "NotFound" \in MessageFragments(message)
  \/ "PineconeNotFoundError" \in MessageFragments(message)

\* the result of a generateEmbedding call: the values returned or the error
\* thrown, and the models asked, in order
EmbedResult(outcome, models) ==
  [ok |-> outcome.kind = "ok", values |-> outcome.values,
   error |-> outcome.message, models |-> models]

\* an embedder that asks the fallback model after any failure
generateEmbeddingAnyError(primary, fallback) ==
  IF primary.kind = "ok"
  THEN EmbedResult(primary, <<"Qwen3-Embedding-0.6B">>)
  ELSE EmbedResult(fallback, <<"Qwen3-Embedding-0.6B", "llama-text-embed-v2">>)

\* generateEmbedding (embeddings.ts 3-33) on the outcomes of the two models
generateEmbedding(primary, fallback) ==
  IF primary.kind = "ok"
  THEN EmbedResult(primary, <<"Qwen3-Embedding-0.6B">>)
  ELSE IF IsNotFound(primary.message)
  THEN EmbedResult(fallback, <<"Qwen3-Embedding-0.6B", "llama-text-embed-v2">>)
  ELSE EmbedResult(primary, <<"Qwen3-Embedding-0.6B">>)

\* what the embedding provider returns: vectors of one dimension, none zero;
\* <<4,1>> and <<4,0>> have similarity 0.970, <<0,3>> is far from both
PipelineEmbeddings == {<<4, 1>>, <<4, 0>>}

PrimaryOutcomes ==
  {Embedded(v) : v \in PipelineEmbeddings}
    \cup {EmbedError("Model Qwen3-Embedding-0.6B not found (404)"),
          EmbedError("429 Too Many Requests")}

FallbackOutcomes ==
  {Embedded(<<0, 3>>), EmbedError("429 Too Many Requests")}

\* the errors a direct call of the embedder meets
ErrorMessages ==
  {"Model Qwen3-Embedding-0.6B not found (404)", "PineconeNotFoundError: model",
   "timeout after 4040 ms", "429 Too Many Requests", "model not found"}

DirectEmbedOutcomes ==
  {Embedded(v) : v \in {<<4, 1>>, <<4, 0>>, <<0, 3>>, <<1, 0, 1>>}}
    \cup {EmbedError(m) : m \in ErrorMessages}

\* 'Unknown', the default file name (chatService.ts 239); files are numbers
UnknownFile == 0

\* MAX_SNIPPET_CHARS, MAX_CONTEXT_TOKENS, TOKEN_CHAR_RATIO
MaxSnippetChars == 240
MaxContextTokens == 3500
TokenCharRatio == 4

\* matches of the vector index
MatchA1 ==
  [id |-> 1, score |-> 10,
   metadata |-> [fileName |-> 1, lineNumber |-> 12,
                 text |-> [kwScore |-> 0, words |-> {"tarif"}, chars |-> 300]]]
MatchA2 ==
  [id |-> 2, score |-> 5,
   metadata |-> [fileName |-> 1, lineNumber |-> 40,
                 text |-> [kwScore |-> 6, words |-> {}, chars |-> 100]]]
MatchB ==
  [id |-> 3, score |-> 10,
   metadata |-> [fileName |-> 2, lineNumber |-> 7,
                 text |-> [kwScore |-> 0, words |-> {}, chars |-> 240]]]
MatchBare == [id |-> 4, score |-> 0, metadata |-> Null]

VectorOutcomes ==
  {[ok |-> FALSE, matches |-> <<>>],
   [ok |-> TRUE, matches |-> <<>>],
   [ok |-> TRUE, matches |-> <<MatchA2, MatchA1, MatchB, MatchBare>>]}

\* (results.matches || []).map(...) (chatService.ts 235-244)
ToRetrievedDocument(match) ==
  IF match.metadata = Null
  THEN [id |-> match.id, score |-> match.score, fileName |-> UnknownFile,
        lineNumber |-> 0, text |-> [kwScore |-> 0, words |-> {}, chars |-> 0]]
  ELSE [id |-> match.id, score |-> match.score,
        fileName |-> match.metadata.fileName,
        lineNumber |-> match.metadata.lineNumber,
        text |-> match.metadata.text]

\* dedupeByFile (chatService.ts 336-352): a Map keeps the order in which the
\* keys were first set; a later document replaces the value only when its
\* score is strictly higher
RECURSIVE BestOfFile(_, _, _, _)
BestOfFile(docs, file, i, cur) ==
  IF i > Len(docs) THEN cur
  ELSE IF docs[i].fileName = file
          /\ (cur = Null \/ docs[i].finalScore > cur.finalScore)
       THEN BestOfFile(docs, file, i + 1, docs[i])
       ELSE BestOfFile(docs, file, i + 1, cur)

\* the first document of each file kept whatever its score
dedupeByFileKeepFirst(docs) == DedupeFrom(docs, 1, {})

dedupeByFile(docs) ==
  LET firsts == DedupeFrom(docs, 1, {})
  IN [k \in 1..Len(firsts) |-> BestOfFile(docs, firsts[k].fileName, 1, Null)]

\* a snippet that returns the text whole
snippetWhole(text) == text

\* snippet (chatService.ts 354-358): slice(0, 240) + '...'
snippet(text) ==
  IF text.chars <= MaxSnippetChars THEN text
  ELSE [text EXCEPT !.chars = MaxSnippetChars + 3]

\* safeInt (chatService.ts 360-363); line numbers are numerals in the model
safeInt(val, fallback) == val

ToSource(doc) ==
  [fileName |-> doc.fileName, lineNumber |-> safeInt(doc.lineNumber, 0),
   text |-> snippet(doc.text), score |-> doc.finalScore]

ToSources(docs) == [i \in 1..Len(docs) |-> ToSource(docs[i])]

RECURSIVE Digits(_)
Digits(n) == IF n < 10 THEN 1 ELSE 1 + Digits(n \div 10)

\* the length of `[From ${fileName}, line ${lineNumber}]: ${text}`; a file
\* name is 'Unknown' or a name of 5 characters
BlockChars(it) ==
  16 + (IF it.fileName = UnknownFile THEN 7 ELSE 5) + Digits(it.lineNumber)
     + it.text.chars

\* buildContextsWithBudget (chatService.ts 317-334)
RECURSIVE ContextsFrom(_, _, _)
ContextsFrom(items, i, usedTokens) ==
  IF i > Len(items) THEN <<>>
  ELSE LET estTokens ==
             (BlockChars(items[i]) + TokenCharRatio - 1) \div TokenCharRatio
       IN IF usedTokens + estTokens > MaxContextTokens THEN <<>>
          ELSE <<[fileName |-> items[i].fileName,
                  lineNumber |-> items[i].lineNumber,
                  text |-> items[i].text]>>
                 \o ContextsFrom(items, i + 1, usedTokens + estTokens)

\* a loop that leaves out a block over the budget and goes on to the next
RECURSIVE ContextsSkipping(_, _, _)
ContextsSkipping(items, i, usedTokens) ==
  IF i > Len(items) THEN <<>>
  ELSE LET estTokens ==
             (BlockChars(items[i]) + TokenCharRatio - 1) \div TokenCharRatio
       IN IF usedTokens + estTokens > MaxContextTokens
          THEN ContextsSkipping(items, i + 1, usedTokens)
          ELSE <<[fileName |-> items[i].fileName,
                  lineNumber |-> items[i].lineNumber,
                  text |-> items[i].text]>>
                 \o ContextsSkipping(items, i + 1, usedTokens + estTokens)

buildContextsSkipping(items) == ContextsSkipping(items, 1, 0)

buildContextsWithBudget(items) == ContextsFrom(items, 1, 0)

\* the QueryLog of a request (queryLogger: createQueryLog, startStep,
\* endStep, finalizeQueryLog, markCacheHit, setRefinedQuery); times are left
\* out: a step has a duration once it is ended, the log once it is finalized
createQueryLog(query) ==
  [originalQuery |-> query, refinedQuery |-> Null, steps |-> <<>>,
   cacheHit |-> FALSE, resultCount |-> 0, finalized |-> 0, ongoing |-> {}]

startStep(log, stepName) ==
  [log EXCEPT !.steps = Append(@, [name |-> stepName, ended |-> FALSE])]

\* an endStep that sets no end time
endStepNoEnd(log, stepName) == log

\* the step is found by its name: a request starts each step once
endStep(log, stepName) ==
  [log EXCEPT !.steps =
     [i \in 1..Len(@) |-> IF @[i].name = stepName
                          THEN [@[i] EXCEPT !.ended = TRUE] ELSE @[i]]]

\* finalized counts the calls (totalDuration is set from the first on);
\* ongoing is the steps the call finds without a duration (textChunker.ts
\* 165-168)
finalizeQueryLog(log, resultCount) ==
  [log EXCEPT !.resultCount = resultCount,
              !.finalized = @ + 1,
              !.ongoing = {log.steps[i].name :
                             i \in {j \in 1..Len(log.steps) :
                                      ~log.steps[j].ended}}]

markCacheHit(log) == [log EXCEPT !.cacheHit = TRUE]

setRefinedQuery(log, refinedQuery) == [log EXCEPT !.refinedQuery = refinedQuery]

\* MAX_LOGS
MaxLogs == 100

\* a request that has not arrived.  The fields up to error are the locals of
\* chatWithDocuments(Stream) and retrieveContexts and the calls made for the
\* request; res is the calls made on the response object, in order; stream,
\* buffer are the provider stream and the buffer of its 'data' handler;
\* doneBefore, clearsAtStart and clearsAtLookup record when the request ran
IdleRequest ==
  [pc |-> "idle", mode |-> "none", question |-> Null, topK |-> 0,
   refined |-> Null, searchQuery |-> Null, ghostIntent |-> NoIntent,
   questionEmbedding |-> <<>>,
   cachedResult |-> Null, sources |-> <<>>, contexts |-> <<>>,
   fromCache |-> FALSE, log |-> createQueryLog(Null),
   refineCalls |-> 0, embedModels |-> <<>>, lookups |-> 0,
   vectorQueries |-> <<>>, initialTopK |-> 0, vectorResult |-> "none",
   rerankCalls |-> 0, addCalls |-> 0, llmCalls |-> <<>>,
   answered |-> FALSE, error |-> "",
   res |-> <<>>, stream |-> "none", buffer |-> <<>>, onDoneCalls |-> 0,
   events |-> 0,
   doneBefore |-> {}, clearsAtStart |-> 0, clearsAtLookup |-> 0]

\* warmCache not called: its locals questions, question (the i-th),
\* embedding, questionsProcessed and errors, and its return value; attempted,
\* outcomes and addCalls record what the call did
WarmIdle ==
  [pc |-> "idle", questions |-> <<>>, i |-> 0, embedding |-> <<>>,
   questionsProcessed |-> 0, errors |-> <<>>, success |-> FALSE,
   attempted |-> <<>>, outcomes |-> <<>>, addCalls |-> 0]

PipeIdle ==
  /\ req = [r \in Requests |-> IdleRequest]
  /\ queryLogs = <<>>
  /\ clears = 0
  /\ warm = WarmIdle

(***************************************************************************)
(* The cache API called directly (the routes and tests call it this way)   *)
(***************************************************************************)
\* embeddings: a zero vector, two of the same direction, a near one
\* (similarity 0.970 to <<1,0>>), and two of another dimension whose mutual
\* similarity is 0.5
CacheEmbeddings ==
  {<<0, 0>>, <<1, 0>>, <<2, 0>>, <<4, 1>>, <<1, 0, 1>>, <<0, 1, 1>>}

RankedA ==
  [id |-> 1, score |-> 10, fileName |-> 1,
   text |-> [kwScore |-> 0, words |-> {"prix"}, chars |-> 3],
   lineNumber |-> 12, originalRank |-> 1, finalScore |-> 60]

CachePayloads ==
  {[question |-> "internet", results |-> <<RankedA>>],
   [question |-> "prix fibre 100 mbps", results |-> <<>>],
   [question |-> "internet", results |-> <<>>]}

CallAddToCache(question, embedding, results) ==
  /\ Len(embeddingIndex) < MaxCache
  /\ SetCache(addToCache(CacheState, question, embedding, results))
  /\ lastCall' = [op |-> "addToCache", embedding |-> embedding, result |-> Null]
  /\ UNCHANGED <<rerankVars, pipeVars>>

CallCheckCache(queryEmbedding) ==
  /\ stats.hitCount + stats.missCount < MaxLookups
  /\ SetCache(checkCacheState(CacheState, queryEmbedding))
  /\ lastCall' = [op |-> "checkCache", embedding |-> queryEmbedding,
                  result |-> checkCacheResult(CacheState, queryEmbedding)]
  /\ UNCHANGED <<rerankVars, pipeVars>>

CallClearCache ==
  /\ SetCache(clearCache(CacheState))
  /\ lastCall' = [op |-> "clearCache", embedding |-> <<>>, result |-> Null]
  /\ UNCHANGED <<rerankVars, pipeVars>>

NoCall == [op |-> "none", embedding |-> <<>>, result |-> Null]
NoRerank == [called |-> FALSE]

InitCache ==
  /\ embeddingIndex = EmptyCache.embeddingIndex
  /\ queryCache = EmptyCache.queryCache
  /\ stats = EmptyCache.stats
  /\ lastCall = NoCall
  /\ rrInput = NoRerank
  /\ rrOutput = <<>>
  /\ PipeIdle

NextCache ==
  \/ \E p \in CachePayloads, e \in CacheEmbeddings :
       CallAddToCache(p.question, e, p.results)
  \/ \E e \in CacheEmbeddings : CallCheckCache(e)
  \/ CallClearCache

SpecCache == InitCache /\ [][NextCache]_vars

(***************************************************************************)
(* Claims about the cache API, checked under SpecCache                     *)
(***************************************************************************)
EntryAt(i) == queryCache[embeddingIndex[i].id]

NonZero(a) == DotFrom(a, a, 1) > 0

\* a and b have cosine similarity exactly 1 (equality in Cauchy-Schwarz)
SameDirection(a, b) ==
  /\ Len(a) = Len(b)
  /\ DotFrom(a, b, 1) > 0
  /\ DotFrom(a, b, 1) * DotFrom(a, b, 1) = DotFrom(a, a, 1) * DotFrom(b, b, 1)

C6_AppendOnly ==
  [][ /\ lastCall'.op = "addToCache" =>
           /\ Len(embeddingIndex') = Len(embeddingIndex) + 1
           /\ SubSeq(embeddingIndex', 1, Len(embeddingIndex)) = embeddingIndex
           /\ Cardinality(DOMAIN queryCache') = Cardinality(DOMAIN queryCache) + 1
           /\ stats'.cachedQuestions = stats.cachedQuestions + 1
      /\ lastCall'.op # "clearCache" =>
           /\ Len(embeddingIndex') >= Len(embeddingIndex)
           /\ \A id \in DOMAIN queryCache :
                id \in DOMAIN queryCache' /\ queryCache'[id] = queryCache[id]
    ]_vars

\* two entries of the same embedding, the second just added
C6_Witness ==
  /\ lastCall.op = "addToCache"
  /\ Len(embeddingIndex) = 2
  /\ embeddingIndex[1].embedding = embeddingIndex[2].embedding
  /\ Cardinality(DOMAIN queryCache) = 2

(***************************************************************************)
(* rerankDocuments called on its own: SpecRerank draws the arguments       *)
(***************************************************************************)
\* (vector score, keyword score) of a document: finalScore 10, 30, 54 or 60:
\* 10 (0.1) is under the floor of 27, 30 is over the floor and under
\* 0.9 * 60, and 54 is exactly 0.9 * 60
ScoreProfiles ==
  {[score |-> 1, kwScore |-> 1], [score |-> 5, kwScore |-> 0],
   [score |-> 5, kwScore |-> 6], [score |-> 10, kwScore |-> 0]}

\* lists of up to MaxScoredDocs documents take every profile; longer lists,
\* which are there for the limit of 5 sources, the lowest and the highest
MaxScoredDocs == 5

ProfilesFor(n) ==
  IF n <= MaxScoredDocs THEN ScoreProfiles
  ELSE {[score |-> 1, kwScore |-> 1], [score |-> 10, kwScore |-> 0]}

\* for n documents: all of one file, of two files in turn, or each of its own
FileCounts(n) == {m \in {1, 2, n} : m >= 1 /\ (m <= n \/ m = 1)}

\* which documents of the list contain the intent keyword "tarif"
WordPatterns == {"none", "odd", "last"}

HasWord(pattern, i, n) ==
  CASE pattern = "odd" -> i % 2 = 1
    [] pattern = "last" -> i = n
    [] OTHER -> FALSE

RerankIntents ==
  {NoIntent, "unknown", "pricing for gaming pack", "looking for current offers"}

\* n documents over m file names (document i is of file ((i-1) mod m) + 1)
RerankInput(n, m, profile, pattern) ==
  [i \in 1..n |->
     [id |-> i, score |-> profile[i].score, fileName |-> ((i - 1) % m) + 1,
      lineNumber |-> i,
      text |-> [kwScore |-> profile[i].kwScore,
                words |-> IF HasWord(pattern, i, n) THEN {"tarif"} ELSE {},
                chars |-> 3]]]

InitRerank ==
  /\ embeddingIndex = EmptyCache.embeddingIndex
  /\ queryCache = EmptyCache.queryCache
  /\ stats = EmptyCache.stats
  /\ lastCall = NoCall
  /\ \E n \in 0..MaxDocs :
       \E m \in FileCounts(n), profile \in [1..n -> ProfilesFor(n)],
          pattern \in WordPatterns, intent \in RerankIntents :
         rrInput = [called |-> FALSE, query |-> "offre fibre",
                    documents |-> RerankInput(n, m, profile, pattern),
                    intent |-> intent, config |-> [finalResultCount |-> 10]]
  /\ rrOutput = <<>>
  /\ PipeIdle

CallRerank ==
  /\ ~rrInput.called
  /\ rrOutput' = rerankDocuments(rrInput.query, rrInput.documents,
                                 rrInput.intent, rrInput.config)
  /\ rrInput' = [rrInput EXCEPT !.called = TRUE]
  /\ UNCHANGED <<cacheVars, lastCall, pipeVars>>

NextRerank == CallRerank

SpecRerank == InitRerank /\ [][NextRerank]_vars

FileNames(docs) == {docs[i].fileName : i \in 1..Len(docs)}

C10_WitnessCap ==
  /\ rrInput.called
  /\ Cardinality(FileNames(rrInput.documents)) = 6
  /\ \A i \in 1..Len(rrInput.documents) : rrInput.documents[i].score = 10
  /\ Len(rrOutput) = 5

\* the finalScore rerankDocuments gives an input document
FinalScoreOf(doc) ==
  calculateHybridScore(doc.score, doc.text.kwScore, SemanticWeight,
                       KeywordWeight)

\* C11: no two documents of the result of rerankDocuments have the same
\* file name, and the document kept for a file is a chunk of the input whose
\* score no other chunk of that file exceeds.
C11_OnePerFileBestChunk ==
  rrInput.called =>
    /\ \A i, j \in 1..Len(rrOutput) :
         rrOutput[i].fileName = rrOutput[j].fileName => i = j
    /\ \A i \in 1..Len(rrOutput) :
         /\ \E k \in 1..Len(rrInput.documents) :
              /\ rrInput.documents[k].id = rrOutput[i].id
              /\ rrInput.documents[k].fileName = rrOutput[i].fileName
              /\ FinalScoreOf(rrInput.documents[k]) = rrOutput[i].finalScore
         /\ \A k \in 1..Len(rrInput.documents) :
              rrInput.documents[k].fileName = rrOutput[i].fileName =>
                FinalScoreOf(rrInput.documents[k]) <= rrOutput[i].finalScore

\* C11 witness: a file has several chunks, its best chunk is not its first
\* in the input, and the result holds that chunk
C11_Witness ==
  /\ rrInput.called
  /\ \E i \in 1..Len(rrOutput) :
       \E k \in 1..Len(rrInput.documents) :
         /\ rrInput.documents[k].fileName = rrOutput[i].fileName
         /\ k < rrOutput[i].originalRank
         /\ FinalScoreOf(rrInput.documents[k]) < rrOutput[i].finalScore

\* C12: the result of rerankDocuments is in descending order of finalScore.
C12_SortedDescending ==
  rrInput.called =>
    \A i, j \in 1..Len(rrOutput) :
      i < j => rrOutput[i].finalScore >= rrOutput[j].finalScore

\* C12 witness: the input was in ascending order of score, the intent filter
\* dropped a document that passed the threshold, and the result has two
\* documents of different scores
C12_Witness ==
  /\ rrInput.called
  /\ rrInput.intent = "pricing for gaming pack"
  /\ Len(rrOutput) >= 2
  /\ rrOutput[1].finalScore > rrOutput[2].finalScore
  /\ rrOutput[1].originalRank > rrOutput[2].originalRank
  /\ \E k \in 1..Len(rrInput.documents) :
       /\ FinalScoreOf(rrInput.documents[k]) = rrOutput[1].finalScore
       /\ \A i \in 1..Len(rrOutput) :
            rrOutput[i].fileName # rrInput.documents[k].fileName

(***************************************************************************)
(* The request pipeline: chatWithDocuments, chatWithDocumentsStream and    *)
(* retrieveContexts (services/chatService.ts 43-289).  A request runs from *)
(* one await to the next in one step; pc names the await it is waiting on. *)
(***************************************************************************)
MaxClears == 1         \* calls of the clear-cache route

\* queryLogs.unshift(log) without the trim
UnshiftNoTrim(logs, r) == <<r>> \o logs

\* queryLogs.unshift(log) and the trim to MAX_LOGS (createQueryLog)
Unshift(logs, r) ==
  LET all == <<r>> \o logs
  IN IF Len(all) > MaxLogs THEN SubSeq(all, 1, MaxLogs) ELSE all

\* buildMessages (chatService.ts 296-315): what the prompt is made of
buildMessages(question, contexts) ==
  [question |-> question, contexts |-> contexts]

\* the catch blocks of chatWithDocuments (68-72) and chatWithDocumentsStream
\* (130-144)
Fail(rq, message) ==
  [rq EXCEPT !.pc = "failed",
             !.error = message,
             !.log = finalizeQueryLog(@, 0),
             !.res = IF rq.mode = "stream" THEN @ \o <<"error", "end">> ELSE @]

\* the request arrives: createQueryLog, then retrieveContexts up to its first
\* await (the refiner for an ambiguous question, the embedder otherwise)
ArriveWith(r, mode, topKs) ==
  /\ req[r].pc = "idle"
  /\ \E question \in Questions, topK \in topKs :
       LET log == createQueryLog(question)
           ambiguous == isQueryLikelyAmbiguous(question)
       IN req' = [req EXCEPT ![r] =
            [IdleRequest EXCEPT
               !.pc = IF ambiguous THEN "refine" ELSE "embed",
               !.mode = mode,
               !.question = question,
               !.topK = topK,
               !.searchQuery = question,
               !.log = IF ambiguous
                       THEN startStep(log, "Ghost Prompt (Query Refinement)")
                       ELSE startStep(log, "Generate Embedding"),
               !.refineCalls = IF ambiguous THEN 1 ELSE 0,
               !.doneBefore = {o \in Requests : req[o].pc = "done"},
               !.clearsAtStart = clears]]
  /\ queryLogs' = Unshift(queryLogs, r)
  /\ UNCHANGED <<cacheVars, lastCall, rerankVars, clears, warm>>

\* a request of the chat routes, which pass topK || 3
Arrive(r, mode) == ArriveWith(r, mode, TopKs)

\* the refiner returns (chatService.ts 165-177)
RefineReturn(r) ==
  /\ req[r].pc = "refine"
  /\ \E response \in RefineResponses :
       LET rq == req[r]
           refined == refineQueryWithGhostPrompt(rq.question, response)
       IN req' = [req EXCEPT ![r] =
            [rq EXCEPT
               !.pc = "embed",
               !.refined = refined,
               !.searchQuery = refined.refinedQuery,
               !.ghostIntent = refined.intent,
               !.log = startStep(
                         endStep(setRefinedQuery(@, refined.refinedQuery),
                                 "Ghost Prompt (Query Refinement)"),
                         "Generate Embedding")]]
  /\ UNCHANGED <<cacheVars, lastCall, rerankVars, queryLogs, clears, warm>>

\* the cache hit path of retrieveContexts (chatService.ts 199-230)
HitPath(rq) ==
  LET cachedDocs == rq.cachedResult.retrievalResults
      sources == ToSources(dedupeByFile(cachedDocs))
  IN [rq EXCEPT
        !.sources = sources,
        !.contexts = buildContextsWithBudget(cachedDocs),
        !.fromCache = TRUE,
        !.log = finalizeQueryLog(
                  endStep(markCacheHit(endStep(@, "Cache Check")),
                          "Vector Search (Initial)"),
                  Len(sources))]

\* steps 4 and 5 of the miss path (chatService.ts 232-261): the ranked
\* documents that are stored and used
Reranked(rq, matches) ==
  LET documents == [i \in 1..Len(matches) |-> ToRetrievedDocument(matches[i])]
      finalCount == IF rq.topK < 10 THEN rq.topK ELSE 10
  IN rerankDocuments(rq.searchQuery, documents, rq.ghostIntent,
                     [finalResultCount |-> finalCount])

\* the miss path of retrieveContexts (chatService.ts 232-289)
MissPath(rq, matches) ==
  LET rerankedDocs == Reranked(rq, matches)
      deduped == dedupeByFile(rerankedDocs)
  IN [rq EXCEPT
        !.rerankCalls = @ + 1,
        !.addCalls = @ + 1,
        !.sources = ToSources(deduped),
        !.contexts = buildContextsWithBudget(deduped),
        !.fromCache = FALSE,
        !.log = endStep(
                  startStep(
                    endStep(
                      startStep(
                        endStep(endStep(@, "Cache Check"),
                                "Vector Search (Initial)"),
                        "Reranking"),
                      "Reranking"),
                    "Add to Cache"),
                  "Add to Cache")]

\* a caller that sends the refined query to the LLM
AfterRetrieveRefined(rq) ==
  IF rq.mode = "chat"
  THEN [rq EXCEPT
          !.pc = "llm",
          !.llmCalls = Append(@, buildMessages(rq.searchQuery, rq.contexts)),
          !.log = startStep(@, "LLM Response Generation")]
  ELSE [rq EXCEPT
          !.pc = "connect",
          !.llmCalls = Append(@, buildMessages(rq.searchQuery, rq.contexts)),
          !.res = Append(@, "writeHead"),
          !.log = startStep(@, "LLM Response Generation (Streaming)")]

\* the caller after retrieveContexts has returned: chatWithDocuments 57-58
\* calls the model, chatWithDocumentsStream 85-103 writes the head and opens
\* the provider stream
AfterRetrieve(rq) ==
  IF rq.mode = "chat"
  THEN [rq EXCEPT
          !.pc = "llm",
          !.llmCalls = Append(@, buildMessages(rq.question, rq.contexts)),
          !.log = startStep(@, "LLM Response Generation")]
  ELSE [rq EXCEPT
          !.pc = "connect",
          !.llmCalls = Append(@, buildMessages(rq.question, rq.contexts)),
          !.res = Append(@, "writeHead"),
          !.log = startStep(@, "LLM Response Generation (Streaming)")]

\* a pipeline that consumes a hit as soon as the lookup has returned and
\* never asks the vector index
AfterLookupShortCircuit(rq, cachedResult) ==
  IF cachedResult # Null
  THEN AfterRetrieve(HitPath([rq EXCEPT !.cachedResult = cachedResult]))
  ELSE [rq EXCEPT !.pc = "index", !.cachedResult = cachedResult]

\* retrieveContexts after checkCache has returned (chatService.ts 183-186):
\* the promise of the lookup is kept and the index is awaited
AfterLookup(rq, cachedResult) ==
  [rq EXCEPT !.pc = "index", !.cachedResult = cachedResult]

\* the embedder returns (chatService.ts 178-186): checkCache runs to its end
\* when it is called, before the vector index is asked
EmbedReturn(r) ==
  /\ req[r].pc = "embed"
  /\ \E primary \in PrimaryOutcomes, fallback \in FallbackOutcomes :
       LET rq == req[r]
           e == generateEmbedding(primary, fallback)
       IN IF ~e.ok
          THEN /\ req' = [req EXCEPT ![r] =
                    Fail([rq EXCEPT !.embedModels = e.models], "embedding")]
               /\ UNCHANGED cacheVars
          ELSE /\ req' = [req EXCEPT ![r] =
                    AfterLookup(
                      [rq EXCEPT
                         !.embedModels = e.models,
                         !.questionEmbedding = e.values,
                         !.lookups = @ + 1,
                         !.clearsAtLookup = clears,
                         !.log = startStep(
                                   startStep(endStep(@, "Generate Embedding"),
                                             "Cache Check"),
                                   "Vector Search (Initial)")],
                      checkCacheResult(CacheState, e.values))]
               /\ SetCache(checkCacheState(CacheState, e.values))
  /\ UNCHANGED <<lastCall, rerankVars, queryLogs, clears, warm>>

\* getPineconeIndex settles (chatService.ts 186-195): index.query is called
\* with the embedding, or the request fails
IndexReturn(r) ==
  /\ req[r].pc = "index"
  /\ \E ok \in BOOLEAN :
       req' = [req EXCEPT ![r] =
                 IF ok
                 THEN [req[r] EXCEPT
                         !.pc = "search",
                         !.vectorQueries = Append(@, req[r].questionEmbedding),
                         !.initialTopK = getInitialRetrievalCount]
                 ELSE Fail(req[r], "pinecone index")]
  /\ UNCHANGED <<cacheVars, lastCall, rerankVars, queryLogs, clears, warm>>

\* how index.query settled
Settled(rq, results) ==
  [rq EXCEPT !.vectorResult = IF results.ok THEN "resolved" ELSE "rejected"]

\* a retrieval that looks at the cached result before the outcome of the
\* vector search
SearchReturnCacheFirst(r) ==
  /\ req[r].pc = "search"
  /\ \E results \in VectorOutcomes :
       LET rq == Settled(req[r], results)
       IN IF rq.cachedResult # Null
          THEN /\ req' = [req EXCEPT ![r] = AfterRetrieve(HitPath(rq))]
               /\ UNCHANGED cacheVars
          ELSE IF ~results.ok
          THEN /\ req' = [req EXCEPT ![r] = Fail(rq, "vector search")]
               /\ UNCHANGED cacheVars
          ELSE /\ req' = [req EXCEPT ![r] =
                    AfterRetrieve(MissPath(rq, results.matches))]
               /\ SetCache(addToCache(CacheState, rq.searchQuery,
                                      rq.questionEmbedding,
                                      Reranked(rq, results.matches)))
  /\ UNCHANGED <<lastCall, rerankVars, queryLogs, clears, warm>>

\* Promise.all([cachePromise, resultsPromise]) settles (chatService.ts
\* 195-289): a failure of the index or of its query rejects it, whatever the
\* cache said
SearchReturn(r) ==
  /\ req[r].pc = "search"
  /\ \E results \in VectorOutcomes :
       LET rq == Settled(req[r], results)
       IN IF ~results.ok
          THEN /\ req' = [req EXCEPT ![r] = Fail(rq, "vector search")]
               /\ UNCHANGED cacheVars
          ELSE IF rq.cachedResult # Null
          THEN /\ req' = [req EXCEPT ![r] = AfterRetrieve(HitPath(rq))]
               /\ UNCHANGED cacheVars
          ELSE /\ req' = [req EXCEPT ![r] =
                    AfterRetrieve(MissPath(rq, results.matches))]
               /\ SetCache(addToCache(CacheState, rq.searchQuery,
                                      rq.questionEmbedding,
                                      Reranked(rq, results.matches)))
  /\ UNCHANGED <<lastCall, rerankVars, queryLogs, clears, warm>>

\* chatWithModel returns or throws (chatService.ts 58-72)
LLMReturn(r) ==
  /\ req[r].pc = "llm"
  /\ \E ok \in BOOLEAN :
       LET rq == req[r]
       IN req' = [req EXCEPT ![r] =
            IF ok
            THEN [rq EXCEPT
                    !.pc = "done",
                    !.answered = TRUE,
                    !.log = finalizeQueryLog(
                              endStep(@, "LLM Response Generation"),
                              Len(rq.sources))]
            ELSE Fail(rq, "llm")]
  /\ UNCHANGED <<cacheVars, lastCall, rerankVars, queryLogs, clears, warm>>

\* the route DELETE /cache (routes/upload.ts): clearCache()
ClearRoute ==
  /\ clears < MaxClears
  /\ SetCache(clearCache(CacheState))
  /\ clears' = clears + 1
  /\ UNCHANGED <<lastCall, rerankVars, req, queryLogs, warm>>

InitChat ==
  /\ embeddingIndex = EmptyCache.embeddingIndex
  /\ queryCache = EmptyCache.queryCache
  /\ stats = EmptyCache.stats
  /\ lastCall = NoCall
  /\ rrInput = NoRerank
  /\ rrOutput = <<>>
  /\ PipeIdle

NextChat ==
  \/ \E r \in Requests : Arrive(r, "chat")
  \/ \E r \in Requests : RefineReturn(r)
  \/ \E r \in Requests : EmbedReturn(r)
  \/ \E r \in Requests : IndexReturn(r)
  \/ \E r \in Requests : SearchReturn(r)
  \/ \E r \in Requests : LLMReturn(r)
  \/ ClearRoute

SpecChat == InitChat /\ [][NextChat]_vars

(***************************************************************************)
(* Claims about the request pipeline                                       *)
(***************************************************************************)
\* C3: a request that took the cache hit path used the cached ranked
\* documents as they were stored (its sources and its contexts are built
\* from them), made no rerankDocuments call and no addToCache call, and
\* called the LLM exactly once, with the request's original question.
C3_HitSkipsRerankCallsLLMOnce ==
  \A r \in Requests :
    req[r].fromCache =>
      LET cachedDocs == req[r].cachedResult.retrievalResults
      IN /\ req[r].rerankCalls = 0
         /\ req[r].addCalls = 0
         /\ req[r].sources = ToSources(dedupeByFile(cachedDocs))
         /\ req[r].contexts = buildContextsWithBudget(cachedDocs)
         /\ req[r].llmCalls =
              <<buildMessages(req[r].question, req[r].contexts)>>

\* C3 witness: an answered request that hit an entry stored under another
\* question, after a refinement that changed its search query
C3_Witness ==
  \E r \in Requests :
    /\ req[r].fromCache
    /\ req[r].pc = "done"
    /\ req[r].cachedResult.question # req[r].question
    /\ req[r].searchQuery # req[r].question
    /\ req[r].sources # <<>>

\* the premise of C4: b arrived after a had been answered, both for the same
\* question, the refiner and the embedder gave b what they gave a, and
\* clearCache did not run from a's arrival to b's lookup
Repeats(a, b) ==
  /\ a \in req[b].doneBefore
  /\ req[b].pc = "done"
  /\ req[a].question = req[b].question
  /\ req[a].searchQuery = req[b].searchQuery
  /\ req[a].ghostIntent = req[b].ghostIntent
  /\ req[a].questionEmbedding = req[b].questionEmbedding
  /\ req[b].clearsAtLookup = req[a].clearsAtStart

\* C4: when a question is answered twice in a row with deterministic
\* collaborators and no clearCache in between, the second call's query log
\* has cacheHit = true and its sources equal the first call's sources.
C4_RepeatHitsSameSources ==
  \A a, b \in Requests :
    Repeats(a, b) =>
      /\ req[b].log.cacheHit
      /\ req[b].sources = req[a].sources

\* C4 witness: a repeat whose first call had sources
C4_Witness ==
  \E a, b \in Requests :
    /\ Repeats(a, b)
    /\ req[a].sources # <<>>
    /\ req[a].searchQuery # req[a].question

\* the case of C5: two requests for the same question and embedding that
\* both missed and both inserted, with no clearCache since their lookups
BothInserted(a, b) ==
  /\ a # b
  /\ req[a].question = req[b].question
  /\ req[a].pc \notin {"idle", "refine", "embed", "index"}
  /\ req[b].pc \notin {"idle", "refine", "embed", "index"}
  /\ req[a].questionEmbedding = req[b].questionEmbedding
  /\ req[a].addCalls = 1
  /\ req[b].addCalls = 1
  /\ req[a].clearsAtLookup = clears
  /\ req[b].clearsAtLookup = clears

\* C5: after two concurrent requests for the same question have both missed
\* and both inserted, the cache holds two entries for their embedding, every
\* id of the index resolves in the map, and a lookup for the embedding hits.
C5_DuplicateInsertNotCorrupt ==
  \A a, b \in Requests :
    BothInserted(a, b) =>
      LET e == req[a].questionEmbedding
      IN /\ Cardinality({i \in 1..Len(embeddingIndex) :
                           embeddingIndex[i].embedding = e}) >= 2
         /\ \A i \in 1..Len(embeddingIndex) :
              embeddingIndex[i].id \in DOMAIN queryCache
         /\ checkCacheResult(CacheState, e) # Null

\* C5 witness: both requests looked up before either inserted, and both
\* have inserted
C5_Witness ==
  \E a, b \in Requests :
    /\ BothInserted(a, b)
    /\ req[a].cachedResult = Null
    /\ req[b].cachedResult = Null
    /\ Len(embeddingIndex) = 2

(***************************************************************************)
(* chatWithDeepSeekStream (config/deepseek.ts 55-194) and the callbacks    *)
(* chatWithDocumentsStream gives it (services/chatService.ts 103-129).     *)
(*                                                                         *)
(* The text of the provider stream is a sequence of atoms: "data:", " ",   *)
(* "[DONE]" (12 characters together), "{", "}", "nl" for a line feed, and  *)
(* atoms for the text between braces.                                      *)
(***************************************************************************)
MaxEvents == 3         \* 'data' events of one provider stream

RECURSIVE trimStart(_)
trimStart(s) ==
  IF s # <<>> /\ Head(s) \in {" ", "nl"} THEN trimStart(Tail(s)) ELSE s

startsWith(s, prefix) ==
  Len(s) >= Len(prefix) /\ SubSeq(s, 1, Len(prefix)) = prefix

\* indexOf, from 1; 0 when the atom does not occur (the code's -1)
indexOf(s, atom) ==
  IF \E i \in 1..Len(s) : s[i] = atom
  THEN CHOOSE i \in 1..Len(s) :
         s[i] = atom /\ \A j \in 1..(i - 1) : s[j] # atom
  ELSE 0

\* slice(from), from 1
SliceFrom(s, from) == SubSeq(s, from, Len(s))

\* the loop of findMatchingBrace (deepseek.ts 92-103)
RECURSIVE BraceScan(_, _, _)
BraceScan(s, i, depth) ==
  IF i > Len(s) THEN 0
  ELSE IF s[i] = "{" THEN BraceScan(s, i + 1, depth + 1)
  ELSE IF s[i] = "}"
       THEN IF depth - 1 = 0 THEN i ELSE BraceScan(s, i + 1, depth - 1)
       ELSE BraceScan(s, i + 1, depth)

findMatchingBrace(s, start) == BraceScan(s, start, 0)

\* the JSON texts of the model
ContentObject ==
  <<"{", "choices:[", "{", "delta:", "{", "content:Hi", "}", "}", "]", "}">>
StopObject ==
  <<"{", "choices:[", "{", "delta:", "{", "}", "finish_reason:stop", "}", "]",
    "}">>
LengthObject ==
  <<"{", "choices:[", "{", "delta:", "{", "}", "finish_reason:length", "}",
    "]", "}">>
UsageObject == <<"{", "usage:", "{", "total_tokens:9", "}", "}">>
BrokenObject == <<"{", "choices:[", "}">>

\* JSON.parse: the object read, or a throw (ok = FALSE); content "" and
\* finish_reason "" stand for a missing or null field
JSONparse(jsonStr) ==
  CASE jsonStr = ContentObject ->
         [ok |-> TRUE, isArray |-> TRUE,
          choices |-> <<[content |-> "Hi", finish_reason |-> ""]>>,
          usage |-> FALSE, id |-> FALSE]
    [] jsonStr = StopObject ->
         [ok |-> TRUE, isArray |-> TRUE,
          choices |-> <<[content |-> "", finish_reason |-> "stop"]>>,
          usage |-> FALSE, id |-> FALSE]
    [] jsonStr = LengthObject ->
         [ok |-> TRUE, isArray |-> TRUE,
          choices |-> <<[content |-> "", finish_reason |-> "length"]>>,
          usage |-> FALSE, id |-> FALSE]
    [] jsonStr = UsageObject ->
         [ok |-> TRUE, isArray |-> FALSE, choices |-> <<>>,
          usage |-> TRUE, id |-> FALSE]
    [] OTHER ->
         [ok |-> FALSE, isArray |-> FALSE, choices |-> <<>>,
          usage |-> FALSE, id |-> FALSE]

OnChunkCall(content) == [cb |-> "onChunk", content |-> content]
OnDoneCall == [cb |-> "onDone", content |-> ""]

\* the callbacks made for the choices of one object (deepseek.ts 160-169)
RECURSIVE ChoiceCalls(_, _)
ChoiceCalls(choices, i) ==
  IF i > Len(choices) THEN <<>>
  ELSE (IF choices[i].content # "" THEN <<OnChunkCall(choices[i].content)>>
        ELSE <<>>)
       \o (IF choices[i].finish_reason = "stop" THEN <<OnDoneCall>> ELSE <<>>)
       \o ChoiceCalls(choices, i + 1)

\* the callbacks made for one parsed object (deepseek.ts 157-174)
ParsedCalls(parsed) ==
  IF ~parsed.ok THEN <<>>
  ELSE IF parsed.isArray THEN ChoiceCalls(parsed.choices, 1)
  ELSE IF parsed.usage \/ parsed.id THEN <<OnDoneCall>>
  ELSE <<>>

DoneLine == <<"data:", " ", "[DONE]">>

\* the while (true) loop of the 'data' handler (deepseek.ts 111-175): the
\* buffer it leaves and the callbacks it makes, in order
RECURSIVE ProcessBuffer(_, _)
ProcessBuffer(untrimmed, calls) ==
  LET buffer == trimStart(untrimmed)
      stop == [buffer |-> buffer, calls |-> calls]
      newline == indexOf(buffer, "nl")
  IN IF buffer = <<>> THEN stop
     ELSE IF startsWith(buffer, DoneLine)
     THEN ProcessBuffer(SliceFrom(buffer, Len(DoneLine) + 1),
                        Append(calls, OnDoneCall))
     ELSE IF startsWith(buffer, <<"data:">>) /\ indexOf(buffer, "{") = 0
     THEN IF newline # 0
          THEN ProcessBuffer(SliceFrom(buffer, newline + 1), calls)
          ELSE stop
     ELSE IF ~startsWith(buffer, <<"data:">>) /\ ~startsWith(buffer, <<"{">>)
     THEN IF newline = 0 THEN stop
          ELSE ProcessBuffer(SliceFrom(buffer, newline + 1), calls)
     ELSE LET jsonStart == indexOf(buffer, "{")
              jsonEnd == findMatchingBrace(buffer, jsonStart)
          IN IF jsonEnd = 0 THEN stop
             ELSE ProcessBuffer(
                    SliceFrom(buffer, jsonEnd + 1),
                    calls \o ParsedCalls(
                               JSONparse(SubSeq(buffer, jsonStart, jsonEnd))))

\* onChunk (chatService.ts 105-111): sendSSE writes one data event
onChunk(rq, chunk) == [rq EXCEPT !.res = Append(@, "data")]

\* onDone (chatService.ts 112-128): the done event, then res.end()
onDone(rq) ==
  [rq EXCEPT
     !.log = finalizeQueryLog(
               endStep(@, "LLM Response Generation (Streaming)"),
               Len(rq.sources)),
     !.res = @ \o <<"done", "end">>,
     !.onDoneCalls = @ + 1]

RECURSIVE ApplyCalls(_, _)
ApplyCalls(rq, calls) ==
  IF calls = <<>> THEN rq
  ELSE ApplyCalls(IF Head(calls).cb = "onChunk"
                  THEN onChunk(rq, Head(calls).content)
                  ELSE onDone(rq),
                  Tail(calls))

\* what one 'data' event of the provider carries
DataLine(object) == <<"data:", " ">> \o object \o <<"nl", "nl">>

StreamChunks ==
  {DataLine(ContentObject),
   <<"data:", " ", "{", "choices:[", "{", "delta:">>,
   <<"{", "content:Hi", "}", "}", "]", "}", "nl", "nl">>,
   DataLine(StopObject),
   DataLine(StopObject) \o DoneLine \o <<"nl", "nl">>,
   DataLine(LengthObject),
   DoneLine \o <<"nl", "nl">>,
   UsageObject \o <<"nl">>,
   DataLine(BrokenObject),
   <<": keep-alive", "nl">>,
   <<"data:", " ", "ping", "nl">>}

\* axios.post settles (deepseek.ts 71-89, 190-193): the handlers are set on
\* the stream, or the call throws and chatWithDocumentsStream catches
Connect(r) ==
  /\ req[r].pc = "connect"
  /\ \E ok \in BOOLEAN :
       req' = [req EXCEPT ![r] =
                 IF ok THEN [req[r] EXCEPT !.pc = "streaming", !.stream = "open"]
                 ELSE Fail(req[r], "DeepSeek streaming error")]
  /\ UNCHANGED <<cacheVars, lastCall, rerankVars, queryLogs, clears, warm>>

\* stream.on('data') (deepseek.ts 105-179)
StreamData(r) ==
  /\ req[r].stream = "open"
  /\ req[r].events < MaxEvents
  /\ \E chunk \in StreamChunks :
       LET out == ProcessBuffer(req[r].buffer \o chunk, <<>>)
       IN req' = [req EXCEPT ![r] =
                    ApplyCalls([req[r] EXCEPT !.buffer = out.buffer,
                                              !.events = @ + 1],
                               out.calls)]
  /\ UNCHANGED <<cacheVars, lastCall, rerankVars, queryLogs, clears, warm>>

\* stream.on('end') (deepseek.ts 181-184)
StreamEnd(r) ==
  /\ req[r].stream = "open"
  /\ req' = [req EXCEPT ![r] = onDone([req[r] EXCEPT !.stream = "ended"])]
  /\ UNCHANGED <<cacheVars, lastCall, rerankVars, queryLogs, clears, warm>>

\* stream.on('error') (deepseek.ts 186-189)
StreamError(r) ==
  /\ req[r].stream = "open"
  /\ req' = [req EXCEPT ![r] = onDone([req[r] EXCEPT !.stream = "errored"])]
  /\ UNCHANGED <<cacheVars, lastCall, rerankVars, queryLogs, clears, warm>>

StreamRequests == {1}

NextStream ==
  \/ \E r \in StreamRequests : Arrive(r, "stream")
  \/ \E r \in StreamRequests : RefineReturn(r)
  \/ \E r \in StreamRequests : EmbedReturn(r)
  \/ \E r \in StreamRequests : IndexReturn(r)
  \/ \E r \in StreamRequests : SearchReturn(r)
  \/ \E r \in StreamRequests : Connect(r)
  \/ \E r \in StreamRequests : StreamData(r)
  \/ \E r \in StreamRequests : StreamEnd(r)
  \/ \E r \in StreamRequests : StreamError(r)

SpecStream == InitChat /\ [][NextStream]_vars

(***************************************************************************)
(* Claims about the streaming path                                         *)
(***************************************************************************)
StreamClosed(r) == req[r].stream \in {"ended", "errored"}

\* C7: chatWithDeepSeekStream calls onDone exactly once per call: never
\* twice, and once when the provider stream has ended or failed.
C7_OnDoneExactlyOnce ==
  \A r \in Requests :
    /\ req[r].onDoneCalls <= 1
    /\ StreamClosed(r) => req[r].onDoneCalls = 1

\* what follows the data events in the calls on the response
AfterData(calls) ==
  LET w == SelectSeq(calls, LAMBDA c : c # "writeHead")
      firstOther == IF \E i \in 1..Len(w) : w[i] # "data"
                    THEN CHOOSE i \in 1..Len(w) :
                           w[i] # "data" /\ \A j \in 1..(i - 1) : w[j] = "data"
                    ELSE Len(w) + 1
  IN SubSeq(w, firstOther, Len(w))

\* C8: what a streaming request writes to the response is data events, then
\* exactly one terminal event, done or error, then one end of the response.
C8_WireContract ==
  \A r \in Requests :
    LET rest == AfterData(req[r].res)
    IN /\ rest \in {<<>>, <<"done", "end">>, <<"error", "end">>}
       /\ (StreamClosed(r) \/ req[r].pc = "failed") => rest # <<>>

\* C9: when the provider stream fails after chunks were forwarded and before
\* it completed, the response carries those chunks, then an error event and
\* no done event.
C9_MidStreamFailureSendsError ==
  \A r \in Requests :
    (/\ req[r].stream = "errored"
     /\ req[r].onDoneCalls = 1
     /\ \E i \in 1..Len(req[r].res) : req[r].res[i] = "data")
    => /\ \E i \in 1..Len(req[r].res) : req[r].res[i] = "error"
       /\ \A i \in 1..Len(req[r].res) : req[r].res[i] # "done"

(***************************************************************************)
(* The refiner called directly, and by a request (step 1 of                *)
(* retrieveContexts)                                                       *)
(***************************************************************************)
\* a call of refineQueryWithGhostPrompt and what it returned
CallRefine ==
  /\ \E query \in Questions \cup {QRefined}, response \in DirectResponses :
       lastCall' = [op |-> "refineQueryWithGhostPrompt",
                    query |-> query,
                    response |-> response,
                    result |-> refineQueryWithGhostPrompt(query, response)]
  /\ UNCHANGED <<cacheVars, rerankVars, pipeVars>>

RefineRequests == {1}

NextRefine ==
  \/ CallRefine
  \/ \E r \in RefineRequests : Arrive(r, "chat")
  \/ \E r \in RefineRequests : RefineReturn(r)
  \/ \E r \in RefineRequests : EmbedReturn(r)

SpecRefine == InitChat /\ [][NextRefine]_vars

\* C13: refineQueryWithGhostPrompt never raises; when the LLM call fails,
\* the response has no JSON object or the JSON does not parse, it returns
\* the original query with intent "unknown", no entities and isAmbiguous
\* false; and a request whose refiner fell back goes on to the embedding
\* step with its original question as search query.
C13_RefinerFallsBack ==
  /\ lastCall.op = "refineQueryWithGhostPrompt" =>
       /\ lastCall.result # Raised
       /\ lastCall.response \in FailedResponses =>
            lastCall.result = [originalQuery |-> lastCall.query,
                               refinedQuery |-> lastCall.query,
                               intent |-> "unknown",
                               entities |-> <<>>,
                               isAmbiguous |-> FALSE]
  /\ \A r \in Requests :
       (req[r].refined # Null /\ req[r].refined # Raised
        /\ req[r].refined.refinedQuery = req[r].question) =>
         /\ req[r].searchQuery = req[r].question
         /\ req[r].pc \in {"embed", "index", "search", "failed"}
         /\ \E i \in 1..Len(req[r].log.steps) :
              req[r].log.steps[i].name = "Generate Embedding"

\* C13 witness: a direct call whose JSON did not parse returned the
\* fallback, and a request whose refiner returned the fallback has its
\* embedding, made for the original question
C13_Witness ==
  /\ lastCall.op = "refineQueryWithGhostPrompt"
  /\ lastCall.response.kind = "unparsable"
  /\ lastCall.result = FallbackRefined(lastCall.query)
  /\ \E r \in Requests :
       /\ req[r].refined = FallbackRefined(req[r].question)
       /\ req[r].pc = "index"
       /\ req[r].searchQuery = req[r].question

(***************************************************************************)
(* generateEmbedding called directly                                       *)
(***************************************************************************)
\* a call of generateEmbedding, what the two models would answer, and what
\* it returned
CallEmbed ==
  /\ \E text \in Questions, primary \in DirectEmbedOutcomes,
        fallback \in DirectEmbedOutcomes :
       lastCall' = [op |-> "generateEmbedding",
                    text |-> text,
                    primary |-> primary,
                    fallback |-> fallback,
                    result |-> generateEmbedding(primary, fallback)]
  /\ UNCHANGED <<cacheVars, rerankVars, pipeVars>>

NextEmbed == CallEmbed

SpecEmbed == InitChat /\ [][NextEmbed]_vars

\* the messages the test of generateEmbedding takes for 'model not found'
NotFoundMessages ==
  {"Model Qwen3-Embedding-0.6B not found (404)", "PineconeNotFoundError: model",
   "timeout after 4040 ms"}

\* C14: in generateEmbedding a primary failure identified as 'model not
\* found' is followed by exactly one call of the fallback model, whose
\* values or error are the outcome of the call; any other primary error is
\* the outcome of the call and the fallback model is not called.
C14_FallbackOnlyOnNotFound ==
  lastCall.op = "generateEmbedding" =>
    LET primary == lastCall.primary
        fallback == lastCall.fallback
        result == lastCall.result
    IN /\ primary.kind = "ok" =>
            /\ result.models = <<"Qwen3-Embedding-0.6B">>
            /\ result.ok /\ result.values = primary.values
       /\ (primary.kind = "error" /\ primary.message \in NotFoundMessages) =>
            /\ result.models = <<"Qwen3-Embedding-0.6B", "llama-text-embed-v2">>
            /\ result.ok = (fallback.kind = "ok")
            /\ result.values = fallback.values
            /\ result.error = fallback.message
       /\ (primary.kind = "error" /\ primary.message \notin NotFoundMessages) =>
            /\ result.models = <<"Qwen3-Embedding-0.6B">>
            /\ ~result.ok
            /\ result.error = primary.message

\* C14 witness: the primary model was not found and the fallback model
\* failed with another error, which is the outcome
C14_Witness ==
  /\ lastCall.op = "generateEmbedding"
  /\ lastCall.primary.message = "PineconeNotFoundError: model"
  /\ lastCall.fallback.message = "429 Too Many Requests"
  /\ ~lastCall.result.ok
  /\ lastCall.result.error = "429 Too Many Requests"
  /\ Len(lastCall.result.models) = 2

(***************************************************************************)
(* Claims about the steps of retrieveContexts                              *)
(***************************************************************************)
\* the request has taken the hit branch or the miss branch
BranchTaken(r) == req[r].fromCache \/ req[r].rerankCalls > 0

\* C15: within a request the cache lookup and the vector search are both
\* launched before a result is consumed; neither branch is taken while the
\* vector search is pending; and a request that took a branch, the hit
\* branch included, had its vector search launched with its embedding.
C15_LookupAndSearchJoined ==
  \A r \in Requests :
    /\ req[r].pc \in {"index", "search"} =>
         /\ req[r].lookups = 1
         /\ ~BranchTaken(r)
         /\ ~req[r].log.cacheHit
         /\ req[r].addCalls = 0
         /\ req[r].sources = <<>>
    /\ req[r].pc = "search" =>
         req[r].vectorQueries = <<req[r].questionEmbedding>>
    /\ BranchTaken(r) =>
         /\ req[r].lookups = 1
         /\ req[r].vectorQueries = <<req[r].questionEmbedding>>

\* C15 witness: an answered request whose lookup hit and whose vector
\* search was launched all the same
C15_Witness ==
  \E r \in Requests :
    /\ req[r].pc = "done"
    /\ req[r].fromCache
    /\ req[r].cachedResult # Null
    /\ req[r].vectorQueries = <<req[r].questionEmbedding>>

(***************************************************************************)
(* warmCache (services/cacheService.ts 109-183), from one await to the     *)
(* next.                                                                   *)
(***************************************************************************)
MaxQuestions == 3      \* questions of data/common-questions.json

\* the lists the questions file may hold
QuestionLists ==
  UNION {[1..n -> Questions] : n \in 0..MaxQuestions}

\* the loop abandoned at the first failure
WarmFailedAbort(w) ==
  [w EXCEPT !.pc = "returned",
            !.success = TRUE,
            !.errors = Append(@, w.i),
            !.outcomes = Append(@, "failed")]

\* the head of the for loop (cacheService.ts 128-131): generateEmbedding is
\* called for the next question, or the loop is over and warmCache returns
\* (173-176)
NextQuestion(w) ==
  IF w.i < Len(w.questions)
  THEN [w EXCEPT !.pc = "embed",
                 !.i = @ + 1,
                 !.attempted = Append(@, w.questions[w.i + 1])]
  ELSE [w EXCEPT !.pc = "returned", !.success = TRUE]

\* the catch inside the loop (cacheService.ts 166-170); an error message is
\* modelled by the position of its question
WarmFailed(w) ==
  NextQuestion([w EXCEPT !.errors = Append(@, w.i),
                         !.outcomes = Append(@, "failed")])

\* stats.lastWarmTime = Date.now() when the loop is over (cacheService.ts 173)
WarmStats(c, w) ==
  IF w.pc = "returned" /\ w.success
  THEN [c EXCEPT !.stats.lastWarmTime = "set"]
  ELSE c

\* the outer catch (cacheService.ts 178-182)
WarmAborted(w) ==
  [w EXCEPT !.pc = "returned", !.success = FALSE,
            !.errors = <<"Cache warming failed">>]

\* warmCache is called (cacheService.ts 109-126): the file is read and the
\* index awaited
WarmStartWith(lists) ==
  /\ warm.pc = "idle"
  /\ \E readable \in BOOLEAN, questions \in lists :
       IF readable
       THEN /\ warm' = [WarmIdle EXCEPT !.pc = "index", !.questions = questions]
            /\ SetCache([CacheState EXCEPT
                           !.stats.totalQuestions = Len(questions)])
       ELSE /\ warm' = WarmAborted(warm)
            /\ UNCHANGED cacheVars
  /\ UNCHANGED <<lastCall, rerankVars, req, queryLogs, clears>>

WarmStart == WarmStartWith(QuestionLists)

\* getPineconeIndex settles (cacheService.ts 126)
WarmIndex ==
  /\ warm.pc = "index"
  /\ \E ok \in BOOLEAN :
       LET w == IF ok THEN NextQuestion(warm) ELSE WarmAborted(warm)
       IN /\ warm' = w
          /\ SetCache(WarmStats(CacheState, w))
  /\ UNCHANGED <<lastCall, rerankVars, req, queryLogs, clears>>

\* generateEmbedding settles (cacheService.ts 131-145): checkCache, then the
\* question is skipped or index.query is called
WarmEmbed ==
  /\ warm.pc = "embed"
  /\ \E primary \in PrimaryOutcomes, fallback \in FallbackOutcomes :
       LET e == generateEmbedding(primary, fallback)
           existing == checkCacheResult(CacheState, e.values)
           w == IF ~e.ok THEN WarmFailed(warm)
                ELSE IF existing # Null
                THEN NextQuestion([warm EXCEPT
                                     !.embedding = e.values,
                                     !.questionsProcessed = @ + 1,
                                     !.outcomes = Append(@, "skipped")])
                ELSE [warm EXCEPT !.pc = "query", !.embedding = e.values]
       IN /\ warm' = w
          /\ SetCache(WarmStats(IF e.ok THEN checkCacheState(CacheState, e.values)
                                ELSE CacheState, w))
  /\ UNCHANGED <<lastCall, rerankVars, req, queryLogs, clears>>

\* index.query settles (cacheService.ts 140-164): the documents are reranked
\* and stored, and the delay of 100 ms starts
WarmQuery ==
  /\ warm.pc = "query"
  /\ \E results \in VectorOutcomes :
       IF ~results.ok
       THEN /\ warm' = WarmFailed(warm)
            /\ SetCache(WarmStats(CacheState, WarmFailed(warm)))
       ELSE LET question == warm.questions[warm.i]
                documents == [k \in 1..Len(results.matches) |->
                                ToRetrievedDocument(results.matches[k])]
                rerankedResults ==
                  rerankDocuments(question, documents, NoIntent,
                                  [finalResultCount |-> 10])
            IN /\ warm' = [warm EXCEPT
                             !.pc = "delay",
                             !.questionsProcessed = @ + 1,
                             !.addCalls = @ + 1,
                             !.outcomes = Append(@, "stored")]
               /\ SetCache(addToCache(CacheState, question, warm.embedding,
                                      rerankedResults))
  /\ UNCHANGED <<lastCall, rerankVars, req, queryLogs, clears>>

\* the delay is over (cacheService.ts 164)
WarmDelay ==
  /\ warm.pc = "delay"
  /\ warm' = NextQuestion(warm)
  /\ SetCache(WarmStats(CacheState, NextQuestion(warm)))
  /\ UNCHANGED <<lastCall, rerankVars, req, queryLogs, clears>>

NextWarm ==
  \/ WarmStart
  \/ WarmIndex
  \/ WarmEmbed
  \/ WarmQuery
  \/ WarmDelay

SpecWarm == InitChat /\ [][NextWarm]_vars

\* C16 as stated: whenever warmCache has returned, every question of the
\* list was attempted in order and questionsProcessed + errors.length = N.
C16_EveryQuestionAsClaimed ==
  warm.pc = "returned" =>
    /\ warm.attempted = warm.questions
    /\ warm.questionsProcessed + Len(warm.errors) = Len(warm.questions)

\* the number of questions with a given outcome
CountOutcome(outcome) ==
  Cardinality({k \in 1..Len(warm.outcomes) : warm.outcomes[k] = outcome})

\* C16 amended: when warmCache has returned with success = true (the file
\* was read and the index obtained), every question of the list was
\* attempted in order, each was skipped, stored or failed, the skipped ones
\* added no entry and the stored ones one entry each, the failed ones are
\* the errors, and questionsProcessed + errors.length = N.
C16_EveryQuestionAmended ==
  (warm.pc = "returned" /\ warm.success) =>
    /\ warm.attempted = warm.questions
    /\ Len(warm.outcomes) = Len(warm.questions)
    /\ warm.questionsProcessed = CountOutcome("skipped") + CountOutcome("stored")
    /\ Len(warm.errors) = CountOutcome("failed")
    /\ warm.addCalls = CountOutcome("stored")
    /\ Len(embeddingIndex) = CountOutcome("stored")
    /\ warm.questionsProcessed + Len(warm.errors) = Len(warm.questions)
    /\ stats.lastWarmTime = "set"

\* C16 witness: a list of three questions, the first stored, the second
\* failed, the third skipped
C16_Witness ==
  /\ warm.pc = "returned"
  /\ warm.success
  /\ warm.outcomes = <<"stored", "failed", "skipped">>
  /\ warm.questionsProcessed = 2
  /\ warm.errors = <<2>>

(***************************************************************************)
(* The sources of a response (chatService.ts 203-210, 263-271, 336-352):   *)
(* dedupeByFile and the two places where retrieveContexts maps its result  *)
(* to sources.                                                             *)
(***************************************************************************)
MaxChunks == 3        \* documents given to dedupeByFile

\* ranked documents of two files, in any order of score
ChunkLists ==
  UNION {[1..n -> {[RankedA EXCEPT !.fileName = f, !.finalScore = sc]
                     : f \in {1, 2}, sc \in {10, 30, 54}}]
           : n \in 0..MaxChunks}

\* dedupeByFile(docs) mapped to sources, as lines 205-210 and 266-271 do
CallDedupeByFile ==
  /\ \E docs \in ChunkLists :
       lastCall' = [op |-> "dedupeByFile",
                    docs |-> docs,
                    sources |-> ToSources(dedupeByFile(docs))]
  /\ UNCHANGED <<cacheVars, rerankVars, pipeVars>>

\* a request at the Promise.all of retrieveContexts (chatService.ts 195)
AtRetrieval(question, intent) ==
  [IdleRequest EXCEPT !.pc = "search", !.mode = "chat",
                      !.question = question, !.searchQuery = question,
                      !.topK = 3, !.ghostIntent = intent,
                      !.log = createQueryLog(question)]

\* the hit path (chatService.ts 199-230) on a cached result that an earlier
\* miss stored
CallHitSources ==
  /\ \E question \in Questions, results \in VectorOutcomes :
       /\ results.ok
       /\ LET cachedDocs == Reranked(AtRetrieval(question, "unknown"),
                                     results.matches)
              rq == [AtRetrieval(question, "unknown") EXCEPT
                       !.cachedResult = [question |-> question,
                                         retrievalResults |-> cachedDocs]]
          IN lastCall' = [op |-> "hit",
                          docs |-> cachedDocs,
                          sources |-> HitPath(rq).sources]
  /\ UNCHANGED <<cacheVars, rerankVars, pipeVars>>

\* the miss path (chatService.ts 232-289)
CallMissSources ==
  /\ \E question \in Questions, intent \in {"unknown", "pricing"},
        results \in VectorOutcomes :
       /\ results.ok
       /\ LET rq == AtRetrieval(question, intent)
          IN lastCall' = [op |-> "miss",
                          docs |-> Reranked(rq, results.matches),
                          sources |-> MissPath(rq, results.matches).sources]
  /\ UNCHANGED <<cacheVars, rerankVars, pipeVars>>

NextSources ==
  \/ CallDedupeByFile
  \/ CallHitSources
  \/ CallMissSources

SpecSources == InitChat /\ [][NextSources]_vars

\* the documents of a file among the final documents
OfFile(docs, file) ==
  {k \in 1..Len(docs) : docs[k].fileName = file}

\* C17: the sources of a response, on the hit path and on the miss path,
\* have at most one entry per file name, and the entry of a file carries
\* the highest score among the final documents of that file.
C17_SourcesOnePerFileBest ==
  lastCall.op \in {"dedupeByFile", "hit", "miss"} =>
    LET docs == lastCall.docs
        sources == lastCall.sources
    IN /\ \A i, j \in 1..Len(sources) :
            sources[i].fileName = sources[j].fileName => i = j
       /\ \A i \in 1..Len(sources) :
            /\ \E k \in OfFile(docs, sources[i].fileName) :
                 docs[k].finalScore = sources[i].score
            /\ \A k \in OfFile(docs, sources[i].fileName) :
                 docs[k].finalScore <= sources[i].score
       /\ \A k \in 1..Len(docs) :
            \E i \in 1..Len(sources) : sources[i].fileName = docs[k].fileName

\* C17 witness: three documents, the first and the third of one file and the
\* third scoring higher; the two sources are the third and the second
C17_Witness ==
  /\ lastCall.op = "dedupeByFile"
  /\ Len(lastCall.docs) = 3
  /\ lastCall.docs[1].fileName = lastCall.docs[3].fileName
  /\ lastCall.docs[1].fileName # lastCall.docs[2].fileName
  /\ lastCall.docs[1].finalScore < lastCall.docs[3].finalScore
  /\ Len(lastCall.sources) = 2
  /\ lastCall.sources[1].score = lastCall.docs[3].finalScore
  /\ lastCall.sources[2].fileName = lastCall.docs[2].fileName

(***************************************************************************)
(* The buffer of query logs (utils/textChunker.ts 85-115, 191-200) over    *)
(* more calls of createQueryLog than it holds, with calls of addToCache    *)
(* and clearCache in between.  createQueryLog has no await: the calls of   *)
(* interleaved requests run one after the other.  A log is named by the    *)
(* ordinal of its call.                                                    *)
(***************************************************************************)
MaxLogCalls == 102     \* calls of createQueryLog

\* the ordinal of the newest log: unshift puts it first
LogCalls == IF queryLogs = <<>> THEN 0 ELSE Head(queryLogs)

CallCreateQueryLog ==
  /\ LogCalls < MaxLogCalls
  /\ queryLogs' = Unshift(queryLogs, LogCalls + 1)
  /\ UNCHANGED <<cacheVars, lastCall, rerankVars, req, clears, warm>>

\* getRecentQueryLogs (textChunker.ts 191-193)
getRecentQueryLogs(limit) ==
  SubSeq(queryLogs, 1, IF limit < Len(queryLogs) THEN limit ELSE Len(queryLogs))

NextLogs ==
  \/ CallCreateQueryLog
  \/ \E e \in CacheEmbeddings : CallAddToCache("internet", e, <<RankedA>>)
  \/ CallClearCache

SpecLogs == InitChat /\ [][NextLogs]_vars

\* the buffer holds at most MAX_LOGS logs, the most recent ones, newest
\* first
MostRecentLogs ==
  LET kept == IF LogCalls < 100 THEN LogCalls ELSE 100
  IN /\ Len(queryLogs) = kept
     /\ \A i \in 1..kept : queryLogs[i] = LogCalls - (i - 1)
     /\ getRecentQueryLogs(100) = queryLogs

\* C18: after any number of createQueryLog calls the buffer holds at most
\* 100 logs, exactly the most recent ones, newest first; and a call of
\* addToCache or clearCache leaves the buffer as it was.
C18_LogBufferBounded ==
  /\ []MostRecentLogs
  /\ [][<<cacheVars, lastCall>>' # <<cacheVars, lastCall>>
         => queryLogs' = queryLogs]_vars

\* C18 witness: 102 logs were created, the buffer holds the logs 102 down
\* to 3, and the cache was filled and cleared meanwhile
C18_Witness ==
  /\ LogCalls = 102
  /\ Len(queryLogs) = 100
  /\ queryLogs[100] = 3
  /\ lastCall.op = "clearCache"

(***************************************************************************)
(* Claims about the threshold and the intent filter of rerankDocuments,    *)
(* checked under SpecRerank                                                *)
(***************************************************************************)
\* the greatest of a set of scores (0 for the empty set)
MaxScore(scores) ==
  IF scores = {} THEN 0
  ELSE CHOOSE t \in scores : \A u \in scores : u <= t

\* the scores of the input documents, in hundredths
InputScores ==
  {FinalScoreOf(rrInput.documents[k]) : k \in 1..Len(rrInput.documents)}

\* the best score of the chunks of a file: the score of its deduplicated
\* document
FileScore(file) ==
  MaxScore({FinalScoreOf(rrInput.documents[k]) :
              k \in {j \in 1..Len(rrInput.documents) :
                       rrInput.documents[j].fileName = file}})

\* the cutoff of the claim applied to a score: 0.9 * topScore when topScore
\* is over 0.27, and 0.27 otherwise
AtLeastCutoff(score, topScore) ==
  IF topScore > 27
  THEN 10 * score >= 9 * topScore
  ELSE score >= 27

\* the files whose deduplicated document is kept by the cutoff
FilesOverCutoff ==
  LET topScore == MaxScore(InputScores)
  IN {f \in FileNames(rrInput.documents) :
        AtLeastCutoff(FileScore(f), topScore)}

\* no intent filter applies to the input
NoIntentFilter ==
  \/ rrInput.intent \in {NoIntent, "unknown"}
  \/ getIntentKeywords(rrInput.intent) = {}

\* the cutoff as C19 states it: when no intent filter applies and the
\* fallback has no cause to act, the result is the documents at or over
\* the cutoff, five at most
CutoffAsStated ==
  NoIntentFilter =>
    LET over == FilesOverCutoff
        kept == Cardinality(over)
    IN (kept >= 2 \/ Cardinality(FileNames(rrInput.documents)) < 2) =>
         /\ FileNames(rrOutput) \subseteq over
         /\ Len(rrOutput) = IF kept < 5 THEN kept ELSE 5

\* every candidate scores 0.1
AllScoreTenth ==
  /\ Len(rrInput.documents) >= 2
  /\ \A k \in 1..Len(rrInput.documents) :
       FinalScoreOf(rrInput.documents[k]) = 10

\* the top 2 of the deduplicated list when every candidate has the same
\* score: the first document and the first document of another file
IsTopTwo(out) ==
  /\ Len(out) = 2
  /\ out[1].id = rrInput.documents[1].id
  /\ out[2].fileName # out[1].fileName
  /\ \A k \in 1..Len(rrInput.documents) :
       rrInput.documents[k].fileName # out[1].fileName => out[2].id <= k

\* C19 as stated: the cutoff is 0.9 * topScore over the floor of 0.27 and
\* the floor otherwise, and when every candidate scores 0.1 all are filtered
\* out and the top 2 are returned.
C19_ThresholdAsClaimed ==
  rrInput.called =>
    /\ CutoffAsStated
    /\ AllScoreTenth => (FilesOverCutoff = {} /\ IsTopTwo(rrOutput))

\* C19 amended: the cutoff is 0.9 * topScore over the floor of 0.27 and the
\* floor otherwise; when every candidate scores 0.1 all are filtered out,
\* and the top 2 of the deduplicated list are returned when the candidates
\* are of at least two files, and nothing when they are all of one file.
C19_ThresholdAmended ==
  rrInput.called =>
    /\ CutoffAsStated
    /\ AllScoreTenth =>
         /\ FilesOverCutoff = {}
         /\ IF Cardinality(FileNames(rrInput.documents)) >= 2
            THEN IsTopTwo(rrOutput)
            ELSE rrOutput = <<>>

\* C19 witness: three files score 0.6, 0.54 and 0.3; the cutoff is 0.54 and
\* the result is the first two
C19_Witness ==
  /\ rrInput.called
  /\ NoIntentFilter
  /\ InputScores = {60, 54, 30}
  /\ Cardinality(FileNames(rrInput.documents)) = 3
  /\ Len(rrOutput) = 2
  /\ rrOutput[2].finalScore = 54

\* C19 witness of the scenario: three candidates of three files all score
\* 0.1 and the first two are returned
C19_WitnessAllLow ==
  /\ rrInput.called
  /\ AllScoreTenth
  /\ Cardinality(FileNames(rrInput.documents)) = 3
  /\ IsTopTwo(rrOutput)

\* the chunk of a file that the deduplication keeps: the first of those
\* with the best score
KeptChunk(file) ==
  LET docs == rrInput.documents
      best == FileScore(file)
      ofFile == {k \in 1..Len(docs) :
                   docs[k].fileName = file /\ FinalScoreOf(docs[k]) = best}
  IN docs[CHOOSE k \in ofFile : \A j \in ofFile : k <= j]

\* the files over the cutoff whose kept chunk contains a keyword of the
\* intent
FilesMatchingIntent ==
  {f \in FilesOverCutoff :
     KeptChunk(f).text.words \cap getIntentKeywords(rrInput.intent) # {}}

\* the result for the same documents without an intent
ResultWithoutIntent ==
  rerankDocuments(rrInput.query, rrInput.documents, NoIntent, rrInput.config)

\* C20: the intent filter is applied only when the intent is non-empty, not
\* "unknown" and maps to a keyword set; when no document over the cutoff
\* contains a mapped keyword the result is the one without an intent; when
\* it is applied and at least two documents match, the result is made of
\* matching documents; and whenever a document is over the cutoff the
\* result is not empty.
C20_IntentFilterAdvisory ==
  rrInput.called =>
    LET matching == FilesMatchingIntent
    IN /\ (NoIntentFilter \/ matching = {}) => rrOutput = ResultWithoutIntent
       /\ (~NoIntentFilter /\ Cardinality(matching) >= 2) =>
            /\ FileNames(rrOutput) \subseteq matching
            /\ Len(rrOutput) = IF Cardinality(matching) < 5
                               THEN Cardinality(matching) ELSE 5
       /\ FilesOverCutoff # {} => rrOutput # <<>>

\* C20 witness: the intent maps to keywords, three files are over the cutoff
\* and none contains a keyword: the three are returned
C20_Witness ==
  /\ rrInput.called
  /\ ~NoIntentFilter
  /\ FilesMatchingIntent = {}
  /\ Cardinality(FilesOverCutoff) = 3
  /\ Len(rrOutput) = 3

\* the filter applied: three files are over the cutoff, two contain a
\* keyword and are the result
C20_WitnessApplied ==
  /\ rrInput.called
  /\ ~NoIntentFilter
  /\ Cardinality(FilesOverCutoff) = 3
  /\ Cardinality(FilesMatchingIntent) = 2
  /\ FileNames(rrOutput) = FilesMatchingIntent

(***************************************************************************)
(* The 'data' handler of chatWithDeepSeekStream (deepseek.ts 105-179) fed  *)
(* one provider stream in successive reads.                                *)
(***************************************************************************)
MaxPayloads == 3       \* payloads of one provider stream
MaxReads == 3          \* network reads the stream arrives in

\* a payload cut short by the provider: it cannot be parsed as JSON
TruncatedObject == <<"{", "choices:[", "{", "delta:">>

PayloadKinds == {"content", "broken", "truncated", "ping"}

\* the bytes of a payload, as the provider frames it
PayloadBytes(kind) ==
  CASE kind = "content" -> DataLine(ContentObject)
    [] kind = "broken" -> DataLine(BrokenObject)
    [] kind = "truncated" -> DataLine(TruncatedObject)
    [] OTHER -> <<"data:", " ", "ping", "nl">>

RECURSIVE StreamBytes(_)
StreamBytes(kinds) ==
  IF kinds = <<>> THEN <<>>
  ELSE PayloadBytes(Head(kinds)) \o StreamBytes(Tail(kinds))

ProviderStreams ==
  UNION {[1..n -> PayloadKinds] : n \in 1..MaxPayloads}

\* the ways of cutting a stream of len atoms into at most MaxReads reads:
\* the ascending positions after which a read ends
CutLists(len) ==
  {cuts \in UNION {[1..n -> 1..(len - 1)] : n \in 0..(MaxReads - 1)} :
     \A i \in 1..Len(cuts) : i > 1 => cuts[i - 1] < cuts[i]}

\* the reads: bytes cut at the positions of cuts
ReadsOf(bytes, cuts) ==
  [i \in 1..(Len(cuts) + 1) |->
     SubSeq(bytes,
            IF i = 1 THEN 1 ELSE cuts[i - 1] + 1,
            IF i = Len(cuts) + 1 THEN Len(bytes) ELSE cuts[i])]

\* the 'data' handler called for each read in turn: buffer += chunk, then
\* the loop; the callbacks made, in order
RECURSIVE FeedReads(_, _, _)
FeedReads(reads, buffer, calls) ==
  IF reads = <<>> THEN calls
  ELSE LET out == ProcessBuffer(buffer \o Head(reads), <<>>)
       IN FeedReads(Tail(reads), out.buffer, calls \o out.calls)

\* the text deltas passed to onChunk
Deltas(calls) ==
  LET chunks == SelectSeq(calls, LAMBDA c : c.cb = "onChunk")
  IN [i \in 1..Len(chunks) |-> chunks[i].content]

\* a provider stream and a way of reading it
InitParser ==
  /\ embeddingIndex = EmptyCache.embeddingIndex
  /\ queryCache = EmptyCache.queryCache
  /\ stats = EmptyCache.stats
  /\ \E kinds \in ProviderStreams :
       \E cuts \in CutLists(Len(StreamBytes(kinds))) :
         lastCall = [op |-> "stream", kinds |-> kinds, cuts |-> cuts,
                     deltas |-> <<>>, whole |-> <<>>]
  /\ rrInput = NoRerank
  /\ rrOutput = <<>>
  /\ PipeIdle

\* the stream is read in that way, and read whole
CallStreamParser ==
  /\ lastCall.op = "stream"
  /\ LET bytes == StreamBytes(lastCall.kinds)
     IN lastCall' =
          [lastCall EXCEPT
             !.op = "chatWithDeepSeekStream",
             !.deltas = Deltas(FeedReads(ReadsOf(bytes, lastCall.cuts),
                                         <<>>, <<>>)),
             !.whole = Deltas(FeedReads(<<bytes>>, <<>>, <<>>))]
  /\ UNCHANGED <<cacheVars, rerankVars, pipeVars>>

NextParser == CallStreamParser

SpecParser == InitParser /\ [][NextParser]_vars

\* the deltas of the payloads of a stream that parse as JSON
RECURSIVE ContentDeltas(_)
ContentDeltas(kinds) ==
  IF kinds = <<>> THEN <<>>
  ELSE (IF Head(kinds) = "content" THEN <<"Hi">> ELSE <<>>)
       \o ContentDeltas(Tail(kinds))

\* every way of splitting a stream gives the deltas of the stream read whole
SplitInvariant ==
  lastCall.op = "chatWithDeepSeekStream" => lastCall.deltas = lastCall.whole

\* C21: for a fixed provider stream every way of splitting it into reads
\* gives onChunk the same deltas, those of its payloads that parse as JSON:
\* a payload that does not parse is skipped and the ones after it are kept.
C21_FragmentsReassembled ==
  lastCall.op = "chatWithDeepSeekStream" =>
    /\ lastCall.deltas = lastCall.whole
    /\ lastCall.deltas = ContentDeltas(lastCall.kinds)

\* a payload split in two reads is put together again
C21_SplitPayloadSeen ==
  /\ lastCall.op = "chatWithDeepSeekStream"
  /\ lastCall.kinds = <<"broken", "content">>
  /\ lastCall.cuts = <<20>>
  /\ lastCall.deltas = <<"Hi">>

(***************************************************************************)
(* The refiner on the text of the LLM response (ghostPrompt.ts 63-90): the *)
(* match of /\{[\s\S]*\}/ and JSON.parse.                                  *)
(***************************************************************************)
\* the JSON objects of the model, as text
RefinedObjectText ==
  <<"{", "refinedQuery:offre fibre", "intent:pricing", "entities:[offers]",
    "isAmbiguous:true", "}">>
BareObjectText == <<"{", "isAmbiguous:false", "}">>

\* lastIndexOf, from 1; 0 when the atom does not occur
lastIndexOf(s, atom) ==
  IF \E i \in 1..Len(s) : s[i] = atom
  THEN CHOOSE i \in 1..Len(s) :
         s[i] = atom /\ \A j \in (i + 1)..Len(s) : s[j] # atom
  ELSE 0

\* response.match(/\{[\s\S]*\}/): the quantifier is greedy, the match runs
\* from the first "{" to the last "}" after it; <<>> stands for no match
jsonMatch(response) ==
  LET first == indexOf(response, "{")
      last == lastIndexOf(response, "}")
  IN IF first # 0 /\ last > first THEN SubSeq(response, first, last)
     ELSE <<>>

\* JSON.parse(jsonMatch[0]): the object read, or a throw
ParseRefined(jsonStr) ==
  CASE jsonStr = RefinedObjectText ->
         [kind |-> "object",
          parsed |-> [refinedQuery |-> QRefined,
                      intent |-> "pricing for gaming pack",
                      entities |-> ArrayOf(<<"offers">>),
                      isAmbiguous |-> "true"]]
    [] jsonStr = BareObjectText ->
         [kind |-> "object",
          parsed |-> [refinedQuery |-> Null, intent |-> "",
                      entities |-> NotAnArray, isAmbiguous |-> "false"]]
    [] OTHER -> [kind |-> "unparsable"]

\* lines 66-79: what the text of the response comes to
ResponseOf(text) ==
  IF jsonMatch(text) = <<>> THEN [kind |-> "no braces"]
  ELSE ParseRefined(jsonMatch(text))

\* the texts the LLM may answer with: words, a block in braces, words or
\* more braces
ResponseTexts ==
  {prefix \o body \o suffix :
     prefix \in {<<>>, <<"Here is the JSON:">>, <<"fence json", "nl">>},
     body \in {RefinedObjectText, BareObjectText,
               <<"{", "refinedQuery:", "}">>, <<"I cannot refine this">>},
     suffix \in {<<>>, <<"nl", "fence">>, <<"nl", "Hope this helps">>,
                 <<"nl", "Schema:", "{", "refinedQuery", "}">>,
                 <<"nl", "{", "note:none", "}", "nl">>}}

\* a call of refineQueryWithGhostPrompt whose LLM call answered with text
CallRefineText ==
  /\ \E query \in Questions, text \in ResponseTexts :
       lastCall' = [op |-> "refineQueryWithGhostPrompt(text)",
                    query |-> query,
                    text |-> text,
                    result |-> refineQueryWithGhostPrompt(query,
                                                          ResponseOf(text))]
  /\ UNCHANGED <<cacheVars, rerankVars, pipeVars>>

NextRefineText == CallRefineText

SpecRefineText == InitChat /\ [][NextRefineText]_vars

\* the first balanced {...} block of a text (<<>> when there is none)
FirstBalancedBlock(text) ==
  LET first == indexOf(text, "{")
      last == IF first = 0 THEN 0 ELSE findMatchingBrace(text, first)
  IN IF last = 0 THEN <<>> ELSE SubSeq(text, first, last)

\* C22: whenever the first balanced {...} block of the response is a
\* well-formed JSON object, whatever follows it, the refiner returns the
\* refinedQuery, intent and entities of that object and not the fallback.
C22_FirstBalancedBlockParsed ==
  lastCall.op = "refineQueryWithGhostPrompt(text)" =>
    LET block == ParseRefined(FirstBalancedBlock(lastCall.text))
    IN block.kind = "object" =>
         lastCall.result = refineQueryWithGhostPrompt(lastCall.query, block)

\* the object is found between words that hold no brace
C22_ObjectBetweenWords ==
  /\ lastCall.op = "refineQueryWithGhostPrompt(text)"
  /\ lastCall.text =
       <<"Here is the JSON:">> \o RefinedObjectText \o <<"nl", "Hope this helps">>
  /\ lastCall.result.refinedQuery = QRefined
  /\ lastCall.result.intent = "pricing for gaming pack"

\* when no brace follows the first block, it is the one parsed
C22_ParsedWhenNoLaterBrace ==
  lastCall.op = "refineQueryWithGhostPrompt(text)" =>
    LET first == FirstBalancedBlock(lastCall.text)
    IN (first # <<>> /\ jsonMatch(lastCall.text) = first
          /\ ParseRefined(first).kind = "object") =>
         lastCall.result =
           refineQueryWithGhostPrompt(lastCall.query, ParseRefined(first))

(***************************************************************************)
(* Claims about the QueryLog of a request, checked under SpecChat          *)
(***************************************************************************)
\* the names of the steps of a log
StepNames(log) == {log.steps[i].name : i \in 1..Len(log.steps)}

\* C23: when a request has returned its answer, on the hit path and on the
\* miss path, every step started in its log was ended before the last
\* finalization, and the log is finalized with resultCount equal to the
\* number of sources; when a request has failed its log is finalized with
\* resultCount 0.
C23_StepsTimedLogFinalized ==
  \A r \in Requests :
    /\ req[r].pc = "done" =>
         /\ \A i \in 1..Len(req[r].log.steps) : req[r].log.steps[i].ended
         /\ req[r].log.ongoing = {}
         /\ req[r].log.finalized >= 1
         /\ req[r].log.resultCount = Len(req[r].sources)
         /\ {"Generate Embedding", "Cache Check", "Vector Search (Initial)",
             "LLM Response Generation"} \subseteq StepNames(req[r].log)
         /\ ~req[r].fromCache =>
              {"Reranking", "Add to Cache"} \subseteq StepNames(req[r].log)
    /\ req[r].pc = "failed" =>
         /\ req[r].log.finalized >= 1
         /\ req[r].log.resultCount = 0

\* C23 witness: one request answered on the miss path and one on the hit
\* path, the second with two sources
C23_Witness ==
  /\ req[1].pc = "done"
  /\ ~req[1].fromCache
  /\ "Ghost Prompt (Query Refinement)" \in StepNames(req[1].log)
  /\ req[2].pc = "done"
  /\ req[2].fromCache
  /\ req[2].log.cacheHit
  /\ req[2].log.finalized = 2
  /\ req[2].log.resultCount = 2

\* a request failed after its log was finalized on the hit path
C23_WitnessFailed ==
  /\ req[2].pc = "failed"
  /\ req[2].fromCache
  /\ Len(req[2].sources) > 0
  /\ req[2].log.finalized = 2
  /\ req[2].log.resultCount = 0

(***************************************************************************)
(* buildContextsWithBudget and snippet (chatService.ts 317-334, 354-358)   *)
(* on documents of any length                                              *)
(***************************************************************************)
MaxItems == 3          \* documents given to buildContextsWithBudget

\* the lengths of a document text: empty, short, at and over the snippet
\* budget, and long enough to fill the context budget alone or in two or
\* three blocks (a block adds 22 to 31 characters to its text)
TextLengths == {0, 100, 240, 241, 4640, 6978, 13978, 13979}

ContextItems ==
  [fileName : {UnknownFile, 1}, lineNumber : {7}, finalScore : {60},
   text : {[kwScore |-> 0, words |-> {}, chars |-> c] : c \in TextLengths}]

\* the documents of one call
InitContexts ==
  /\ embeddingIndex = EmptyCache.embeddingIndex
  /\ queryCache = EmptyCache.queryCache
  /\ stats = EmptyCache.stats
  /\ \E n \in 0..MaxItems :
       \E items \in [1..n -> ContextItems] :
         lastCall = [op |-> "items", items |-> items, contexts |-> <<>>,
                     sources |-> <<>>]
  /\ rrInput = NoRerank
  /\ rrOutput = <<>>
  /\ PipeIdle

\* the contexts and the sources made of the documents (chatService.ts
\* 263-279)
CallBuildContexts ==
  /\ lastCall.op = "items"
  /\ lastCall' =
       [lastCall EXCEPT
          !.op = "buildContextsWithBudget",
          !.contexts = buildContextsWithBudget(lastCall.items),
          !.sources = ToSources(lastCall.items)]
  /\ UNCHANGED <<cacheVars, rerankVars, pipeVars>>

NextContexts == CallBuildContexts

SpecContexts == InitContexts /\ [][NextContexts]_vars

\* the tokens a block is estimated at: its characters over 4, rounded up
EstimatedTokens(it) ==
  LET chars == BlockChars(it)
  IN IF chars % 4 = 0 THEN chars \div 4 ELSE (chars \div 4) + 1

\* the estimated tokens of the first k documents
RECURSIVE TokensOfFirst(_, _)
TokensOfFirst(items, k) ==
  IF k = 0 THEN 0
  ELSE TokensOfFirst(items, k - 1) + EstimatedTokens(items[k])

\* C24: the contexts are a prefix of the documents, in their order, whose
\* estimated tokens (characters over 4, rounded up) sum to 3500 at most, and
\* the prefix ends at the first document that would push the sum over 3500.
C24_ContextsWithinBudget ==
  lastCall.op = "buildContextsWithBudget" =>
    LET items == lastCall.items
        k == Len(lastCall.contexts)
    IN /\ k <= Len(items)
       /\ \A i \in 1..k :
            /\ lastCall.contexts[i].fileName = items[i].fileName
            /\ lastCall.contexts[i].lineNumber = items[i].lineNumber
            /\ lastCall.contexts[i].text = items[i].text
       /\ TokensOfFirst(items, k) <= 3500
       /\ k < Len(items) => TokensOfFirst(items, k + 1) > 3500

\* C24 witness: the first document fills the budget to the last token, the
\* second, which is empty, is left out and so is the third
C24_Witness ==
  /\ lastCall.op = "buildContextsWithBudget"
  /\ Len(lastCall.items) = 3
  /\ lastCall.items[1].fileName = 1
  /\ lastCall.items[1].text.chars = 13978
  /\ lastCall.items[2].text.chars = 0
  /\ Len(lastCall.contexts) = 1
  /\ TokensOfFirst(lastCall.items, 1) = 3500

\* C25 as stated: the text of every source is at most 240 characters long.
C25_SnippetAsClaimed ==
  lastCall.op = "buildContextsWithBudget" =>
    \A i \in 1..Len(lastCall.sources) : lastCall.sources[i].text.chars <= 240

\* C25 amended: the text of a source is the document text when that is at
\* most 240 characters long, and otherwise its first 240 characters followed
\* by three dots: 243 characters.
C25_SnippetAmended ==
  lastCall.op = "buildContextsWithBudget" =>
    /\ Len(lastCall.sources) = Len(lastCall.items)
    /\ \A i \in 1..Len(lastCall.sources) :
         lastCall.sources[i].text.chars =
           IF lastCall.items[i].text.chars <= 240
           THEN lastCall.items[i].text.chars
           ELSE 243

\* C25 witness: a text of 240 characters is kept and one of 241 is cut and
\* comes out longer than it was
C25_Witness ==
  /\ lastCall.op = "buildContextsWithBudget"
  /\ Len(lastCall.items) = 2
  /\ lastCall.items[1].text.chars = 240
  /\ lastCall.sources[1].text.chars = 240
  /\ lastCall.items[2].text.chars = 241
  /\ lastCall.sources[2].text.chars = 243

(***************************************************************************)
(* Requests that pass any topK to chatWithDocuments (chatService.ts 43)    *)
(***************************************************************************)
\* under the final count of 10, under the sources limit of 5, and over the
\* retrieval count of 20
AnyTopKs == {1, 3, 50}

NextTopK ==
  \/ \E r \in Requests : ArriveWith(r, "chat", AnyTopKs)
  \/ \E r \in Requests : RefineReturn(r)
  \/ \E r \in Requests : EmbedReturn(r)
  \/ \E r \in Requests : IndexReturn(r)
  \/ \E r \in Requests : SearchReturn(r)

SpecTopK == InitChat /\ [][NextTopK]_vars

\* the request has its sources
Retrieved(r) == req[r].pc \in {"llm", "done"}

\* C26: every request queries the vector index with k = 20 whatever its
\* topK, and its sources are those that the same question, refinement and
\* vector results give with any other topK.
C26_TopKIgnored ==
  \A r \in Requests :
    /\ req[r].vectorQueries # <<>> => req[r].initialTopK = 20
    /\ (Retrieved(r) /\ ~req[r].fromCache) =>
         \E results \in VectorOutcomes :
           /\ results.ok
           /\ \A topK \in AnyTopKs :
                req[r].sources =
                  MissPath([req[r] EXCEPT !.topK = topK], results.matches).sources
    /\ \A o \in Requests :
         (/\ Retrieved(r) /\ Retrieved(o)
          /\ req[r].searchQuery = req[o].searchQuery
          /\ req[r].ghostIntent = req[o].ghostIntent
          /\ req[r].questionEmbedding = req[o].questionEmbedding
          /\ req[r].fromCache /\ ~req[o].fromCache
          /\ req[r].clearsAtLookup = req[o].clearsAtLookup)
         => req[r].sources = req[o].sources

\* C26 witness: a request with topK 1 returned two sources on the miss
\* path, and a request with topK 50 the same two from the cache
C26_Witness ==
  /\ Retrieved(1) /\ Retrieved(2)
  /\ req[1].topK = 1 /\ req[2].topK = 50
  /\ req[1].initialTopK = 20 /\ req[2].initialTopK = 20
  /\ ~req[1].fromCache /\ req[2].fromCache
  /\ Len(req[1].sources) = 2
  /\ req[2].sources = req[1].sources

(***************************************************************************)
(* The cache under calls of addToCache and checkCache, a call of warmCache *)
(* and the clear route, in any order (services/cacheService.ts)            *)
(***************************************************************************)
\* the embeddings of the direct calls: one of the direction of <<4, 0>>,
\* which the embedder may return, and one of another dimension
BookEmbeddings == {<<1, 0>>, <<0, 1, 1>>}

\* data/common-questions.json holds two questions
BookQuestionLists == {<<QInternet, QPrice>>}

NextBook ==
  \/ \E e \in BookEmbeddings : CallAddToCache("internet", e, <<RankedA>>)
  \/ \E e \in BookEmbeddings : CallCheckCache(e)
  \/ ClearRoute
  \/ WarmStartWith(BookQuestionLists)
  \/ WarmIndex
  \/ WarmEmbed
  \/ WarmQuery
  \/ WarmDelay

SpecBook == InitChat /\ [][NextBook]_vars

\* the index, the map and the counter agree
BookkeepingConsistent ==
  /\ Len(embeddingIndex) = Cardinality(DOMAIN queryCache)
  /\ Len(embeddingIndex) = stats.cachedQuestions
  /\ \A i \in 1..Len(embeddingIndex) :
       embeddingIndex[i].id \in DOMAIN queryCache
  /\ \A i, j \in 1..Len(embeddingIndex) :
       embeddingIndex[i].id = embeddingIndex[j].id => i = j

\* what a call of clearCache leaves
ClearedKeepingWarmStats ==
  clears' # clears =>
    /\ Len(embeddingIndex') = 0
    /\ DOMAIN queryCache' = {}
    /\ stats'.cachedQuestions = 0
    /\ stats'.totalQuestions = stats.totalQuestions
    /\ stats'.lastWarmTime = stats.lastWarmTime

\* C27: after any sequence of addToCache, checkCache, warmCache and
\* clearCache the index, the map and stats.cachedQuestions have the same
\* number of entries and every id of the index is in the map; clearCache
\* brings the three to 0 and leaves totalQuestions and lastWarmTime as they
\* were.
C27_BookkeepingConsistent ==
  /\ []BookkeepingConsistent
  /\ [][ClearedKeepingWarmStats]_vars

\* C27 witness: warmCache stored two questions and returned, an entry was
\* added by addToCache, and the cache was then cleared
C27_Witness ==
  /\ warm.pc = "returned"
  /\ warm.addCalls = 2
  /\ lastCall.op = "addToCache"
  /\ clears = 1
  /\ Len(embeddingIndex) = 0
  /\ stats.cachedQuestions = 0
  /\ stats.totalQuestions = 2
  /\ stats.lastWarmTime = "set"

(***************************************************************************)
(* Entries of equal similarity (checked under SpecCache)                   *)
(***************************************************************************)
\* the entries of the index whose similarity to q is over the threshold and
\* that no other entry exceeds
MaximalEntries(q) ==
  LET Sim(i) == cosineSimilarity(q, embeddingIndex[i].embedding)
      qualifying == {i \in 1..Len(embeddingIndex) : SimAtLeastThreshold(Sim(i))}
  IN {i \in qualifying : \A j \in qualifying : ~SimGreater(Sim(j), Sim(i))}

Earliest(S) == CHOOSE i \in S : \A j \in S : i <= j

\* C28: when several entries have the same maximal similarity (>= 0.95) to
\* the query embedding, checkCache returns the one inserted earliest; once an
\* entry of some embedding is stored, a lookup for that embedding returns that
\* entry or one inserted before it, never one added later, as long as the
\* cache is not cleared.
C28_EarliestOfEqualsReturned ==
  lastCall.op = "checkCache" =>
    LET q == lastCall.embedding
        maximal == MaximalEntries(q)
    IN /\ maximal # {} => lastCall.result = EntryAt(Earliest(maximal))
       /\ maximal = {} => lastCall.result = Null
       /\ \A i \in 1..Len(embeddingIndex) :
            embeddingIndex[i].embedding = q /\ NonZero(q) =>
              /\ maximal # {}
              /\ Earliest(maximal) <= i
              /\ \A j \in (i + 1)..Len(embeddingIndex) :
                   EntryAt(j) # EntryAt(Earliest(maximal)) =>
                     lastCall.result # EntryAt(j)

\* C28 witness: two entries of the same embedding and different contents,
\* and a lookup for that embedding that returned the first
C28_Witness ==
  /\ lastCall.op = "checkCache"
  /\ Len(embeddingIndex) = 2
  /\ embeddingIndex[1].embedding = lastCall.embedding
  /\ embeddingIndex[2].embedding = lastCall.embedding
  /\ EntryAt(1) # EntryAt(2)
  /\ lastCall.result = EntryAt(1)

(***************************************************************************)
(* Requests of the two modes side by side, up to the call of the model     *)
(* (chatService.ts 43-73, 78-145, 159-289)                                 *)
(***************************************************************************)
Modes == {"chat", "stream"}

NextModes ==
  \/ \E r \in Requests, mode \in Modes : Arrive(r, mode)
  \/ \E r \in Requests : RefineReturn(r)
  \/ \E r \in Requests : EmbedReturn(r)
  \/ \E r \in Requests : IndexReturn(r)
  \/ \E r \in Requests : SearchReturn(r)

SpecModes == InitChat /\ [][NextModes]_vars

\* C29: a request whose vector search failed has failed, with an error
\* raised to the caller in synchronous mode and an error event followed by
\* the end of the response in streaming mode, and the LLM was not called,
\* whether or not the cache lookup of that request found an entry.
C29_HitDoesNotMaskSearchFailure ==
  \A r \in Requests :
    req[r].vectorResult = "rejected" =>
      /\ req[r].pc = "failed"
      /\ req[r].error = "vector search"
      /\ req[r].llmCalls = <<>>
      /\ ~req[r].answered
      /\ ~req[r].fromCache
      /\ req[r].log.finalized = 1
      /\ req[r].log.resultCount = 0
      /\ req[r].mode = "chat" => req[r].res = <<>>
      /\ req[r].mode = "stream" => req[r].res = <<"error", "end">>

\* a request of the given mode whose lookup found the entry another request
\* had stored and whose vector search then failed
MaskedFailure(mode) ==
  \E r, o \in Requests :
    /\ req[o].addCalls = 1
    /\ req[r].mode = mode
    /\ req[r].cachedResult # Null
    /\ req[r].vectorResult = "rejected"
    /\ req[r].pc = "failed"

\* C29 witness: a streaming request that found a matching entry and whose
\* vector search failed
C29_Witness == MaskedFailure("stream")

\* the same for a synchronous request
C29_WitnessChat == MaskedFailure("chat")

(***************************************************************************)
(* The response after its end (checked under SpecStream)                   *)
(***************************************************************************)
\* C30: in a streaming request, once the terminal event has been written and
\* the response ended, no further call is made on the response: the call of
\* end is the last one, whatever the provider stream delivers afterwards.
C30_NothingAfterEnd ==
  \A r \in Requests :
    \A i \in 1..Len(req[r].res) :
      req[r].res[i] = "end" => i = Len(req[r].res)

\* a data event written after the response was ended
C30_DataAfterEnd ==
  \E r \in Requests :
    \E i, j \in 1..Len(req[r].res) :
      i < j /\ req[r].res[i] = "end" /\ req[r].res[j] = "data"

====
